---------------------------- MODULE Spec2Model ----------------------------
(***************************************************************************)
(* Model of the rockpi-penta daemon: the fan duty policy, the three fan    *)
(* controllers with their PWM backends, process shutdown, and the          *)
(* regex-based button classifier.                                          *)
(*                                                                         *)
(* Duty fractions are kept in thousandths (0.25 is 250, 0.999 is 999);     *)
(* temperatures and thresholds are whole degrees.                          *)
(***************************************************************************)
EXTENDS Integers, Sequences, FiniteSets, TLC

VARIABLES
    \* ---- duty policy evaluation (pure functions) ----
    temp,        \* temperature handed to the policy
    lv,          \* <<lv0, lv1, lv2, lv3>>: the configured thresholds
    run,         \* run state (Config.RunState / conf.Run / Controller.enabled)
    pol,         \* result of the last policy evaluation: [fn, duty]
    \* ---- fan controller (one program variant per behaviour) ----
    ctl,         \* "pkg": Controller.updateFanSpeed, "cmd": Controller.Run,
                 \* "svc": controlFanLoop
    hw,          \* TRUE: hardware PWM backend, FALSE: software PWM backend
    lastDuty,    \* the controller's recorded last duty
    lastTemp,    \* cached temperature (lastTemp / tempCache.temp / tempCacheData.Value)
    stale,       \* the cache timestamp is older than the 60 s TTL
    op,          \* what the last control tick did: [kind, target, before, called, ok]
    \* ---- PWM backends ----
    dutyFile,    \* hardware: content of sysfs duty_cycle in ns (-1: never written)
    enableFile,  \* hardware: content of sysfs enable
    hwLastDuty,  \* hardwarePWMFan.lastDuty
    swDuty,      \* software: SoftwarePWM.duty / fraction given to GPIOController
    dutyChan,    \* softwarePWMFan.dutyChan (capacity 1)
    currentDuty, \* softwarePWMFan.currentDuty (atomic.Uint64)
    dutyHigh,    \* GPIOController.dutyHigh, in microseconds
    dutyLow,     \* GPIOController.dutyLow, in microseconds
    swRunning,   \* SoftwarePWM.running / GPIOController.running
    pwmStop,     \* the software PWM loop's stop channel is closed
    pwmPc,       \* position of the software PWM goroutine
    counter,     \* softwarePWMFan.runPWM: counter
    pinState,    \* softwarePWMFan.runPWM: pinState (1 high, 0 low)
    line,        \* level of the fan output line (1 high, 0 low)
    closePc,     \* position of the backend's Close / Cleanup call
    cycle,       \* GPIOController.runPWM: the sleeps of the iteration in
                 \* progress, [high, low] in microseconds; low is -1 until
                 \* g.dutyLow is read
    \* ---- process shutdown ----
    mainPc,      \* position of main
    loopPc,      \* position of the control loop goroutine
    stopClosed,  \* the loop's stop channel is closed / its context is cancelled
    safeOff,     \* the backend's safe-shutdown action has been performed
    \* ---- button Controller (regex classifier) ----
    buffer,      \* monitorLoop: the sample buffer, 1 = high (released), 0 = low (pressed)
    eventCh,     \* Controller.eventCh (capacity 10)
    sent,        \* every event monitorLoop has sent on eventCh, in order; for
                 \* watch, its click and twice events (EventPress is counted
                 \* in holdPress)
    runs,        \* classes of the completed runs of equal samples on the line,
                 \* odd positions released, even positions pressed
    cur,         \* number of samples of the current run (saturating)
    timeTwice,   \* cfg.Time.Twice, in hundredths of a second
    \* ---- button.Handler (gpiod), detectButtonEvent ----
    pattern,     \* the states recorded at each state change
    timestamps,  \* time.Now() at each state change, in hundredths of a second
                 \* counted from the tick of the first change
    lastState,   \* the last state read from the line
    timeout,     \* time left until the `timeout` channel fires, in hundredths
    now,         \* time of the last tick, in hundredths from the first change
    detected,    \* "" while detecting, else the returned event ("canceled"
                 \* for ctx.Err())
    \* ---- buttonWatcher (rockpi-penta-service) ----
    stateBuffer, \* watch: stateBuffer, 1 = released, 0 = pressed
    lastLevel,   \* watch: lastLevel (1 high, 0 low)
    eventChan,   \* the channel made by StartButtonWatcher (capacity 5)
    watchPc,     \* position of the watch goroutine
    pending,     \* the event watch is sending while it is blocked on eventChan
    holdPress,   \* EventPress events sent since the line was last sampled released
    idx,         \* RunSlider: index of the page on display
    \* ---- start-up ----
    startPc,     \* position of main in start-up, or of the client of the fan Controller
    cRunning,    \* fan Controller.running
    stopCh,      \* the channel held by fan Controller.stopCh: the number of
                 \* make(chan struct{}) calls of Start so far
    closedChs,   \* the channels Stop has closed
    loops,       \* one record per `go c.controlLoop()`: pc, and seen, the
                 \* channel its last select read from c.stopCh
    hasOLED,     \* Application.hasOLED
    btnPin,      \* button Controller.pin: "nil" or "set"
    btnMutex,    \* holder of the button Controller's mutex
    fanPwm,      \* fan Controller.pwm: "nil", "typednil" (an interface holding a
                 \* nil backend pointer) or "ok"
    fanMutex,    \* holder of the fan Controller's mutex
    \* ---- AtomicBool ----
    toggleCalls  \* the Toggle calls in progress on the run state: position, the
                 \* local old and the value the second load returned

polVars == <<temp, lv, run, pol, toggleCalls>>
ctlVars == <<ctl, hw, lastDuty, lastTemp, stale, op>>
pwmVars == <<dutyFile, enableFile, hwLastDuty, swDuty, dutyChan, currentDuty,
             dutyHigh, dutyLow, cycle, swRunning, pwmStop, pwmPc, counter, pinState,
             line, closePc>>
shutVars == <<mainPc, loopPc, stopClosed, safeOff>>
hdlVars == <<pattern, timestamps, lastState, timeout, now, detected>>
btnVars == <<buffer, eventCh, sent, runs, cur, timeTwice, hdlVars>>
watchVars == <<stateBuffer, lastLevel, eventChan, watchPc, pending, holdPress, idx>>
lifeVars == <<cRunning, stopCh, closedChs, loops>>
startVars == <<startPc, btnPin, btnMutex, fanPwm, fanMutex, lifeVars, hasOLED>>

vars == <<temp, lv, run, pol, ctl, hw, lastDuty, lastTemp, stale, op,
          dutyFile, enableFile, hwLastDuty, swDuty, dutyChan, currentDuty,
          dutyHigh, dutyLow, cycle, swRunning, pwmStop, pwmPc, counter, pinState,
          line, closePc,
          mainPc, loopPc, stopClosed, safeOff,
          buffer, eventCh, sent, runs, cur, timeTwice,
          pattern, timestamps, lastState, timeout, now, detected,
          stateBuffer, lastLevel, eventChan, watchPc, pending, holdPress, idx,
          startPc, btnPin, btnMutex, fanPwm, fanMutex, toggleCalls,
          cRunning, stopCh, closedChs, loops, hasOLED>>

-----------------------------------------------------------------------------
(* Bounds of the model *)
MaxTemp == 4

\* the number of concurrent Toggle calls
MaxToggles == 3

\* the number of control ticks within which a disabled fan is to be
\* commanded off
TickBound == 2

(* Duty values of the policy, in thousandths *)
DutyFull == 0
Duty25 == 250
Duty50 == 500
Duty75 == 750
DutyOff == 999

Temps == 0..(MaxTemp + 1)
Levels == 1..MaxTemp
Thresholds == [1..4 -> Levels]

-----------------------------------------------------------------------------
(* Duty policy *)

\* a policy that tests the thresholds from lowest to highest
GetFanDutyCycle_lowestFirst(t, th, running) ==
    IF ~running THEN DutyOff
    ELSE IF t < th[1] THEN DutyOff
    ELSE IF t < th[2] THEN Duty75
    ELSE IF t < th[3] THEN Duty50
    ELSE IF t < th[4] THEN Duty25
    ELSE DutyFull

\* a policy with the duties of the two middle levels exchanged
GetFanDutyCycle_swapped(t, th, running) ==
    IF ~running THEN DutyOff
    ELSE IF t >= th[4] THEN DutyFull
    ELSE IF t >= th[3] THEN Duty50
    ELSE IF t >= th[2] THEN Duty25
    ELSE IF t >= th[1] THEN Duty75
    ELSE DutyOff

\* pkg/config/config.go: Config.GetFanDutyCycle
GetFanDutyCycle(t, th, running) ==
    IF ~running THEN DutyOff
    ELSE IF t >= th[4] THEN DutyFull
    ELSE IF t >= th[3] THEN Duty25
    ELSE IF t >= th[2] THEN Duty50
    ELSE IF t >= th[1] THEN Duty75
    ELSE DutyOff

\* the second copy of the config package: Config.GetFanDutyCycle
GetFanDutyCycle_v2(t, th, running) ==
    IF ~running THEN DutyOff
    ELSE IF t >= th[4] THEN DutyFull
    ELSE IF t >= th[3] THEN Duty25
    ELSE IF t >= th[2] THEN Duty50
    ELSE IF t >= th[1] THEN Duty75
    ELSE DutyOff

\* cmd/pkg config: Config.GetFanDutyCycle (no run state in this variant)
GetFanDutyCycle_cmd(t, th) ==
    IF t >= th[4] THEN DutyFull
    ELSE IF t >= th[3] THEN Duty25
    ELSE IF t >= th[2] THEN Duty50
    ELSE IF t >= th[1] THEN Duty75
    ELSE DutyOff

\* a policy that tests the run state only where no threshold is reached
getFanDutyCycle_runLast(t, th, running) ==
    IF t >= th[4] THEN DutyFull
    ELSE IF t >= th[3] THEN Duty25
    ELSE IF t >= th[2] THEN Duty50
    ELSE IF t >= th[1] /\ running THEN Duty75
    ELSE DutyOff

\* fan package of the service: getFanDutyCycle, given the temperature that
\* getTemperatureForFanControl returned
getFanDutyCycle(t, th, running) ==
    IF ~running THEN DutyOff
    ELSE IF t >= th[4] THEN DutyFull
    ELSE IF t >= th[3] THEN Duty25
    ELSE IF t >= th[2] THEN Duty50
    ELSE IF t >= th[1] THEN Duty75
    ELSE DutyOff

\* cmd/pkg fan: the duty Controller.Run commands on a tick on which the
\* temperature (if consulted) could be read
RunDuty(enabled, t, th) ==
    IF ~enabled THEN DutyOff ELSE GetFanDutyCycle_cmd(t, th)

\* the defaults of cfg.Time.Twice and cfg.Time.Press, in hundredths of a second
TimeTwice == 70
TimePress == 180

-----------------------------------------------------------------------------
(* Values the variables of a subsystem hold in a specification that does   *)
(* not exercise that subsystem                                             *)

NoPol == [fn |-> "none", duty |-> -1]
NoOp == [kind |-> "none", target |-> -1, before |-> -1, called |-> FALSE,
         ok |-> FALSE, offTicks |-> 0]

IdlePol == temp = 0 /\ pol = NoPol /\ toggleCalls = <<>>

IdleCtl ==
    /\ ctl = "none" /\ hw = FALSE /\ lastDuty = -1
    /\ lastTemp = 0 /\ stale = TRUE /\ op = NoOp

\* no iteration of runPWM has begun
NoCycle == [high |-> 0, low |-> -1]

IdlePwm ==
    /\ dutyFile = -1 /\ enableFile = 0 /\ hwLastDuty = -1
    /\ swDuty = 0 /\ dutyChan = <<>> /\ currentDuty = 0
    /\ dutyHigh = 0 /\ dutyLow = 0 /\ cycle = NoCycle /\ swRunning = FALSE /\ pwmStop = FALSE
    /\ pwmPc = "none" /\ counter = 0 /\ pinState = 0 /\ line = 0
    /\ closePc = "none"

IdleShut ==
    /\ mainPc = "none" /\ loopPc = "none" /\ stopClosed = FALSE /\ safeOff = FALSE

IdleHdl ==
    /\ pattern = <<>> /\ timestamps = <<>> /\ lastState = 1 /\ timeout = 0
    /\ now = 0 /\ detected = "canceled"

IdleBtn ==
    /\ buffer = <<>> /\ eventCh = <<>> /\ sent = <<>> /\ runs = <<>> /\ cur = 0
    /\ timeTwice = TimeTwice
    /\ IdleHdl

\* start-up has completed with every component initialized
IdleLife == cRunning = FALSE /\ stopCh = 0 /\ closedChs = {} /\ loops = <<>>

IdleStart ==
    /\ startPc = "running" /\ btnPin = "set" /\ btnMutex = "free"
    /\ fanPwm = "ok" /\ fanMutex = "free"
    /\ IdleLife /\ hasOLED = TRUE

IdleWatch ==
    /\ stateBuffer = <<>> /\ lastLevel = 1 /\ eventChan = <<>>
    /\ watchPc = "none" /\ pending = "" /\ holdPress = 0 /\ idx = 0

-----------------------------------------------------------------------------
(* Specification of the policy functions: inputs drawn from bounded sets *)

PolicyFns == {"GetFanDutyCycle", "GetFanDutyCycle_v2", "GetFanDutyCycle_cmd",
              "getFanDutyCycle", "RunDuty"}

InitPolicy ==
    /\ temp \in Temps
    /\ lv \in Thresholds
    /\ run \in BOOLEAN
    /\ pol = NoPol
    /\ toggleCalls = <<>>
    /\ IdleCtl /\ IdlePwm /\ IdleShut /\ IdleBtn /\ IdleWatch /\ IdleStart

EvalGetFanDutyCycle ==
    /\ pol.fn = "none"
    /\ pol' = [fn |-> "GetFanDutyCycle", duty |-> GetFanDutyCycle(temp, lv, run)]
    /\ UNCHANGED <<temp, lv, run, toggleCalls, btnVars, watchVars, startVars, ctlVars, pwmVars, shutVars>>

EvalGetFanDutyCycle_v2 ==
    /\ pol.fn = "none"
    /\ pol' = [fn |-> "GetFanDutyCycle_v2", duty |-> GetFanDutyCycle_v2(temp, lv, run)]
    /\ UNCHANGED <<temp, lv, run, toggleCalls, btnVars, watchVars, startVars, ctlVars, pwmVars, shutVars>>

EvalGetFanDutyCycle_cmd ==
    /\ pol.fn = "none"
    /\ pol' = [fn |-> "GetFanDutyCycle_cmd", duty |-> GetFanDutyCycle_cmd(temp, lv)]
    /\ UNCHANGED <<temp, lv, run, toggleCalls, btnVars, watchVars, startVars, ctlVars, pwmVars, shutVars>>

EvalgetFanDutyCycle ==
    /\ pol.fn = "none"
    /\ pol' = [fn |-> "getFanDutyCycle", duty |-> getFanDutyCycle(temp, lv, run)]
    /\ UNCHANGED <<temp, lv, run, toggleCalls, btnVars, watchVars, startVars, ctlVars, pwmVars, shutVars>>

EvalRunDuty ==
    /\ pol.fn = "none"
    /\ pol' = [fn |-> "RunDuty", duty |-> RunDuty(run, temp, lv)]
    /\ UNCHANGED <<temp, lv, run, toggleCalls, btnVars, watchVars, startVars, ctlVars, pwmVars, shutVars>>

NextPolicy ==
    \/ EvalGetFanDutyCycle
    \/ EvalGetFanDutyCycle_v2
    \/ EvalGetFanDutyCycle_cmd
    \/ EvalgetFanDutyCycle
    \/ EvalRunDuty

SpecPolicy == InitPolicy /\ [][NextPolicy]_vars

-----------------------------------------------------------------------------
(* Fan controllers and the set-duty operation of their backends *)

\* Controller.lastDuty / lastDuty start at -1
DutyInvalid == -1000
\* the minimum duty change that is written: 0.01
Epsilon == 10
\* hardware PWM period in ns
PeriodNs == 40000
\* GPIOController.period in microseconds
GpioPeriod == 25000
\* readCPUTemperature's value when no reading was ever cached
DefaultTemp == 40
\* softwarePwmResolution
softwarePwmResolution == 100

\* default thresholds of the configuration
DefaultLv == <<35, 40, 45, 50>>

\* temperatures a sensor read may return: 0, below lv0, and each threshold
SensorTemps == {0, DefaultLv[1] - 1} \cup {DefaultLv[i] : i \in 1..4}

Abs(x) == IF x < 0 THEN -x ELSE x

Clamp(d) == IF d < 0 THEN 0 ELSE IF d > 1000 THEN 1000 ELSE d

\* int64(float64(periodNs) * duty)
DutyNs(d) == (PeriodNs * d) \div 1000

\* a loop that writes on every tick
NeedsWrite_always(target, last) == TRUE

\* controlFanLoop: abs(targetDuty-lastDuty) >= 0.01
NeedsWrite(target, last) == Abs(target - last) >= Epsilon

\* updateFanSpeed: duty != c.lastDuty; setDutyCycle: !(duty == c.lastDuty)
Differs(target, last) == target # last

\* HardwarePWM.SetDutyCycle; wok: the sysfs write succeeds
HardwarePWM_SetDutyCycle(d, wok) ==
    /\ dutyFile' = IF wok THEN DutyNs(d) ELSE dutyFile
    /\ UNCHANGED <<enableFile, hwLastDuty, swDuty, dutyChan, currentDuty, dutyHigh,
                   dutyLow, cycle, swRunning, pwmStop, pwmPc, counter, pinState, line, closePc>>

\* SoftwarePWM.SetDutyCycle
SoftwarePWM_SetDutyCycle(d) ==
    /\ swDuty' = d
    /\ UNCHANGED <<dutyFile, enableFile, hwLastDuty, dutyChan, currentDuty, dutyHigh,
                   dutyLow, cycle, swRunning, pwmStop, pwmPc, counter, pinState, line, closePc>>

\* PWMController.setDutyCycle
PWMController_setDutyCycle(d, wok) ==
    /\ dutyFile' = IF wok THEN DutyNs(Clamp(d)) ELSE dutyFile
    /\ UNCHANGED <<enableFile, hwLastDuty, swDuty, dutyChan, currentDuty, dutyHigh,
                   dutyLow, cycle, swRunning, pwmStop, pwmPc, counter, pinState, line, closePc>>

\* GPIOController.setDutyCycle: both durations are stored, and the PWM
\* goroutine is started if it is not running
GPIOController_setDutyCycle(d) ==
    /\ dutyHigh' = (GpioPeriod * Clamp(d)) \div 1000
    /\ dutyLow' = GpioPeriod - (GpioPeriod * Clamp(d)) \div 1000
    /\ UNCHANGED cycle
    /\ swRunning' = TRUE
    /\ pwmPc' = IF swRunning THEN pwmPc ELSE "loop"
    /\ UNCHANGED <<dutyFile, enableFile, hwLastDuty, swDuty, dutyChan, currentDuty,
                   pwmStop, counter, pinState, line, closePc>>

\* hardwarePWMFan.SetDutyCycle: its own cache skips a write of an unchanged duty
hardwarePWMFan_skips(d) == hwLastDuty >= 0 /\ Abs(Clamp(d) - hwLastDuty) < Epsilon

hardwarePWMFan_SetDutyCycle(d, wok) ==
    /\ dutyFile' = IF ~hardwarePWMFan_skips(d) /\ wok THEN DutyNs(Clamp(d)) ELSE dutyFile
    /\ hwLastDuty' = IF ~hardwarePWMFan_skips(d) /\ wok THEN Clamp(d) ELSE hwLastDuty
    /\ UNCHANGED <<enableFile, swDuty, dutyChan, currentDuty, dutyHigh,
                   dutyLow, cycle, swRunning, pwmStop, pwmPc, counter, pinState, line, closePc>>

\* softwarePWMFan.SetDutyCycle: currentDuty is read as millionths; the value
\* is sent on dutyChan, replacing an unconsumed one
softwarePWMFan_skips(d) == Abs(d * 1000 - currentDuty) < Epsilon * 1000

softwarePWMFan_SetDutyCycle(d) ==
    /\ dutyChan' = IF softwarePWMFan_skips(d) THEN dutyChan ELSE <<d>>
    /\ UNCHANGED <<dutyFile, enableFile, hwLastDuty, swDuty, currentDuty, dutyHigh,
                   dutyLow, cycle, swRunning, pwmStop, pwmPc, counter, pinState, line, closePc>>

\* the time since the cache was filled exceeds the TTL
TimePasses ==
    /\ ctl # "none" /\ mainPc # "exited"
    /\ ~stale
    /\ stale' = TRUE
    /\ UNCHANGED <<polVars, btnVars, watchVars, startVars, ctl, hw, lastDuty, lastTemp, op, pwmVars, shutVars>>

\* the run state is flipped (the 'switch' key action; Controller.Toggle)
Toggle ==
    /\ ctl # "none" /\ mainPc = "run"
    /\ run' = ~run
    /\ UNCHANGED <<temp, lv, pol, toggleCalls, btnVars, watchVars, startVars, ctlVars, pwmVars, shutVars>>

\* the number of consecutive control ticks, this one included, that found
\* the run state false and had no failed backend write (counted up to
\* TickBound)
OffTicks(failed) ==
    IF run \/ failed THEN 0
    ELSE IF op.offTicks < TickBound THEN op.offTicks + 1 ELSE TickBound

SkippedTick == [kind |-> "skip", target |-> -1, before |-> lastDuty,
                called |-> FALSE, ok |-> FALSE, offTicks |-> OffTicks(FALSE)]

\* Controller.updateFanSpeed, one tick of Controller.controlLoop
TickPkg ==
    /\ ctl = "pkg" /\ loopPc = "loop" /\ mainPc # "exited"
    /\ fanPwm = "ok"
    /\ \E t \in SensorTemps, rok \in BOOLEAN, wok \in BOOLEAN :
         IF stale /\ ~rok
         THEN /\ op' = SkippedTick
              /\ UNCHANGED <<lastDuty, lastTemp, stale, pwmVars>>
         ELSE LET tmp == IF stale THEN t ELSE lastTemp
                  duty == GetFanDutyCycle(tmp, lv, run)
                  call == Differs(duty, lastDuty)
                  ok == call /\ (hw => wok)
              IN  /\ lastTemp' = tmp
                  /\ stale' = FALSE
                  /\ IF call
                     THEN IF hw THEN HardwarePWM_SetDutyCycle(duty, wok)
                                ELSE SoftwarePWM_SetDutyCycle(duty)
                     ELSE UNCHANGED pwmVars
                  /\ lastDuty' = IF ok THEN duty ELSE lastDuty
                  /\ op' = [kind |-> "tick", target |-> duty, before |-> lastDuty,
                            called |-> call, ok |-> ok,
                            offTicks |-> OffTicks(call /\ ~ok)]
    /\ UNCHANGED <<polVars, btnVars, watchVars, startVars, ctl, hw, shutVars>>

\* Controller.setDutyCycle (cmd/pkg fan), called from Run
Controller_setDutyCycle(duty, wok) ==
    LET call == Differs(duty, lastDuty)
    IN  /\ lastDuty' = duty
        /\ IF call
           THEN IF hw THEN PWMController_setDutyCycle(duty, wok)
                      ELSE GPIOController_setDutyCycle(duty)
           ELSE UNCHANGED pwmVars
        /\ op' = [kind |-> "tick", target |-> duty, before |-> lastDuty,
                  called |-> call, ok |-> call /\ (hw => wok),
                  offTicks |-> OffTicks(call /\ hw /\ ~wok)]

\* one tick of Controller.Run (cmd/pkg fan)
TickCmd ==
    /\ ctl = "cmd" /\ loopPc = "loop" /\ mainPc # "exited"
    /\ \E t \in SensorTemps, rok \in BOOLEAN, wok \in BOOLEAN :
         IF run /\ stale /\ ~rok
         THEN /\ op' = SkippedTick
              /\ UNCHANGED <<lastDuty, lastTemp, stale, pwmVars>>
         ELSE LET tmp == IF stale THEN t ELSE lastTemp
              IN  /\ lastTemp' = IF run THEN tmp ELSE lastTemp
                  /\ stale' = IF run THEN FALSE ELSE stale
                  /\ Controller_setDutyCycle(RunDuty(run, tmp, lv), wok)
    /\ UNCHANGED <<polVars, btnVars, watchVars, startVars, ctl, hw, shutVars>>

\* one tick of controlFanLoop: getFanDutyCycle (with
\* getTemperatureForFanControl and readCPUTemperature), then the write
TickSvc ==
    /\ ctl = "svc" /\ loopPc = "loop" /\ mainPc # "exited"
    /\ \E t \in SensorTemps, src \in {"disk", "cpu", "fail"}, wok \in BOOLEAN :
         /\ src = "disk" => t > 0
         /\ LET fresh == ~stale
                tmp == IF fresh THEN lastTemp
                       ELSE IF src # "fail" THEN t
                       ELSE IF lastTemp > 0 THEN lastTemp ELSE DefaultTemp
                target == getFanDutyCycle(tmp, lv, run)
                call == NeedsWrite(target, lastDuty)
                ok == call /\ (hw => (hardwarePWMFan_skips(target) \/ wok))
            IN  /\ lastTemp' = IF ~fresh /\ src # "fail" THEN t ELSE lastTemp
                /\ stale' = IF ~fresh /\ src # "fail" THEN FALSE ELSE stale
                /\ IF call
                   THEN IF hw THEN hardwarePWMFan_SetDutyCycle(target, wok)
                              ELSE softwarePWMFan_SetDutyCycle(target)
                   ELSE UNCHANGED pwmVars
                /\ lastDuty' = IF ok THEN target ELSE lastDuty
                /\ op' = [kind |-> "tick", target |-> target, before |-> lastDuty,
                          called |-> call, ok |-> ok,
                          offTicks |-> OffTicks(call /\ ~ok)]
    /\ UNCHANGED <<polVars, btnVars, watchVars, startVars, ctl, hw, shutVars>>

-----------------------------------------------------------------------------
(* Shutdown operations of the backends *)

\* HardwarePWM.Close: 'enable' is written 0
HardwarePWM_Close ==
    /\ enableFile' = 0
    /\ UNCHANGED <<dutyFile, hwLastDuty, swDuty, dutyChan, currentDuty, dutyHigh,
                   dutyLow, cycle, swRunning, pwmStop, pwmPc, counter, pinState, line>>

\* PWMController.Close: setEnabled(false)
PWMController_Close ==
    /\ enableFile' = 0
    /\ UNCHANGED <<dutyFile, hwLastDuty, swDuty, dutyChan, currentDuty, dutyHigh,
                   dutyLow, cycle, swRunning, pwmStop, pwmPc, counter, pinState, line>>

\* hardwarePWMFan.Cleanup: 'enable' is written 0, pwm0 is unexported
hardwarePWMFan_Cleanup ==
    /\ enableFile' = 0
    /\ UNCHANGED <<dutyFile, hwLastDuty, swDuty, dutyChan, currentDuty, dutyHigh,
                   dutyLow, cycle, swRunning, pwmStop, pwmPc, counter, pinState, line>>

\* SoftwarePWM.Close: the stop channel is closed only if running is set; the
\* line is not written
SoftwarePWM_Close ==
    /\ pwmStop' = (pwmStop \/ swRunning)
    /\ swRunning' = FALSE
    /\ UNCHANGED <<dutyFile, enableFile, hwLastDuty, swDuty, dutyChan, currentDuty,
                   dutyHigh, dutyLow, cycle, pwmPc, counter, pinState, line>>

\* GPIOController.Close: the stop channel is closed if running is set, then
\* the line and the chip are released; the line is not written
GPIOController_Close ==
    /\ pwmStop' = (pwmStop \/ swRunning)
    /\ swRunning' = FALSE
    /\ UNCHANGED <<dutyFile, enableFile, hwLastDuty, swDuty, dutyChan, currentDuty,
                   dutyHigh, dutyLow, cycle, pwmPc, counter, pinState, line>>

\* softwarePWMFan.Cleanup, up to its sleep: close(s.stopChan)
softwarePWMFan_CleanupBegin ==
    /\ pwmStop' = TRUE
    /\ UNCHANGED <<dutyFile, enableFile, hwLastDuty, swDuty, dutyChan, currentDuty,
                   dutyHigh, dutyLow, cycle, swRunning, pwmPc, counter, pinState, line>>

\* softwarePWMFan.Cleanup, after its sleep: s.pin.Out(gpio.Low)
softwarePWMFan_CleanupEnd ==
    /\ line' = 0
    /\ UNCHANGED <<dutyFile, enableFile, hwLastDuty, swDuty, dutyChan, currentDuty,
                   dutyHigh, dutyLow, cycle, swRunning, pwmStop, pwmPc, counter, pinState>>

\* softwarePWMFan.runPWM, case <-s.stopChan: the line is driven low
softwarePWMFan_stop ==
    /\ ctl = "svc" /\ ~hw /\ mainPc # "exited"
    /\ pwmPc = "loop" /\ pwmStop
    /\ line' = 0
    /\ pwmPc' = "done"
    /\ safeOff' = TRUE
    /\ UNCHANGED <<polVars, btnVars, watchVars, startVars, ctlVars, dutyFile, enableFile, hwLastDuty, swDuty,
                   dutyChan, currentDuty, dutyHigh, dutyLow, cycle, swRunning, pwmStop,
                   counter, pinState, closePc, mainPc, loopPc, stopClosed>>

-----------------------------------------------------------------------------
(* Process shutdown *)

\* SIGINT / SIGTERM is delivered to main
Signal ==
    /\ mainPc = "run"
    /\ mainPc' = "shutdown"
    /\ UNCHANGED <<polVars, btnVars, watchVars, startVars, ctlVars, pwmVars, loopPc, stopClosed, safeOff>>

\* rockpi-penta-service main, cleanup: close(fanStopChan)
MainCloseFanStop ==
    /\ ctl = "svc" /\ mainPc = "shutdown"
    /\ stopClosed' = TRUE
    /\ mainPc' = "returning"
    /\ UNCHANGED <<polVars, btnVars, watchVars, startVars, ctlVars, pwmVars, loopPc, safeOff>>

\* Application.shutdown: cancel, then Controller.Stop closes stopCh and
\* closes the backend; the select on done and time.After is reached
AppShutdown ==
    /\ ctl = "pkg" /\ mainPc = "shutdown"
    /\ stopClosed' = TRUE
    /\ IF hw THEN HardwarePWM_Close ELSE SoftwarePWM_Close
    /\ closePc' = "done"
    /\ safeOff' = hw
    /\ mainPc' = "waiting"
    /\ UNCHANGED <<polVars, btnVars, watchVars, startVars, ctlVars, loopPc>>

\* Application.shutdown, case <-done: the worker goroutines have returned
\* and wg.Wait() has closed done
AppShutdown_done ==
    /\ ctl = "pkg" /\ mainPc = "waiting"
    /\ mainPc' = "returning"
    /\ UNCHANGED <<polVars, btnVars, watchVars, startVars, ctlVars, pwmVars, loopPc, stopClosed, safeOff>>

\* a shutdown that only waits for the worker goroutines
AppShutdown_noTimeout ==
    /\ FALSE
    /\ UNCHANGED vars

\* Application.shutdown, case <-time.After(5 * time.Second): the timeout is
\* logged and shutdown returns with workers still running
AppShutdown_timeout ==
    /\ ctl = "pkg" /\ mainPc = "waiting"
    /\ mainPc' = "timedOut"
    /\ UNCHANGED <<polVars, btnVars, watchVars, startVars, ctlVars, pwmVars, loopPc, stopClosed, safeOff>>

\* rocki-penta main: cancel(), then wg.Wait()
MainCancel ==
    /\ ctl = "cmd" /\ mainPc = "shutdown"
    /\ stopClosed' = TRUE
    /\ mainPc' = "waiting"
    /\ UNCHANGED <<polVars, btnVars, watchVars, startVars, ctlVars, pwmVars, loopPc, safeOff>>

\* rocki-penta main: wg.Wait() has returned, the deferred
\* fanController.Close() runs
MainDeferredClose ==
    /\ ctl = "cmd" /\ mainPc = "waiting" /\ loopPc = "done"
    /\ IF hw THEN PWMController_Close ELSE GPIOController_Close
    /\ closePc' = "done"
    /\ safeOff' = hw
    /\ mainPc' = "returning"
    /\ UNCHANGED <<polVars, btnVars, watchVars, startVars, ctlVars, loopPc, stopClosed>>

\* main returns: the process exits and every goroutine ends with it
MainExit ==
    /\ mainPc \in {"returning", "timedOut"}
    /\ mainPc' = "exited"
    /\ UNCHANGED <<polVars, btnVars, watchVars, startVars, ctlVars, pwmVars, loopPc, stopClosed, safeOff>>

\* Controller.controlLoop: case <-c.stopCh; Controller.Run: case <-ctx.Done()
LoopReturn ==
    /\ ctl \in {"pkg", "cmd"} /\ loopPc = "loop" /\ mainPc # "exited"
    /\ stopClosed
    /\ loopPc' = "done"
    /\ UNCHANGED <<polVars, btnVars, watchVars, startVars, ctlVars, pwmVars, mainPc, stopClosed, safeOff>>

\* controlFanLoop: case <-stopChan: fan.Cleanup() is called; the hardware
\* backend's Cleanup completes here, the software backend's reaches its sleep
LoopCleanup ==
    /\ ctl = "svc" /\ loopPc = "loop" /\ mainPc # "exited"
    /\ stopClosed
    /\ IF hw THEN hardwarePWMFan_Cleanup /\ closePc' = "done"
             ELSE softwarePWMFan_CleanupBegin /\ closePc' = "sleep"
    /\ safeOff' = hw
    /\ loopPc' = IF hw THEN "done" ELSE "cleanup"
    /\ UNCHANGED <<polVars, btnVars, watchVars, startVars, ctlVars, mainPc, stopClosed>>

\* controlFanLoop: the software backend's Cleanup returns, the loop returns
LoopCleanupEnd ==
    /\ ctl = "svc" /\ loopPc = "cleanup" /\ mainPc # "exited"
    /\ softwarePWMFan_CleanupEnd /\ closePc' = "done"
    /\ safeOff' = TRUE
    /\ loopPc' = "done"
    /\ UNCHANGED <<polVars, btnVars, watchVars, startVars, ctlVars, mainPc, stopClosed>>


-----------------------------------------------------------------------------
(* Software PWM goroutines *)

PolicyDuties == {DutyFull, Duty25, Duty50, Duty75, DutyOff}

\* SoftwarePWM.runPWM, before its loop: running is set under the mutex
SoftwarePWM_runPWM_start ==
    /\ ctl = "pkg" /\ ~hw /\ mainPc # "exited"
    /\ pwmPc = "start"
    /\ swRunning' = TRUE
    /\ pwmPc' = "loop"
    /\ UNCHANGED <<polVars, btnVars, watchVars, startVars, ctlVars, shutVars, dutyFile, enableFile, hwLastDuty,
                   swDuty, dutyChan, currentDuty, dutyHigh, dutyLow, cycle, pwmStop,
                   counter, pinState, line, closePc>>

\* SoftwarePWM.runPWM, the select: the stop channel, or a tick that reads the
\* duty and drives the line
SoftwarePWM_runPWM_select ==
    /\ ctl = "pkg" /\ ~hw /\ mainPc # "exited"
    /\ pwmPc = "loop"
    /\ \/ /\ pwmStop
          /\ pwmPc' = "done"
          /\ UNCHANGED line
       \/ /\ line' = IF swDuty <= 1 THEN 0 ELSE 1
          /\ pwmPc' = IF swDuty <= 1 \/ swDuty >= 999 THEN "loop" ELSE "high"
    /\ UNCHANGED <<polVars, btnVars, watchVars, startVars, ctlVars, shutVars, dutyFile, enableFile, hwLastDuty,
                   swDuty, dutyChan, currentDuty, dutyHigh, dutyLow, cycle, swRunning,
                   pwmStop, counter, pinState, closePc>>

\* SoftwarePWM.runPWM, after time.Sleep(onTime): the line is driven low
SoftwarePWM_runPWM_high ==
    /\ ctl = "pkg" /\ ~hw /\ mainPc # "exited"
    /\ pwmPc = "high"
    /\ line' = 0
    /\ pwmPc' = "low"
    /\ UNCHANGED <<polVars, btnVars, watchVars, startVars, ctlVars, shutVars, dutyFile, enableFile, hwLastDuty,
                   swDuty, dutyChan, currentDuty, dutyHigh, dutyLow, cycle, swRunning,
                   pwmStop, counter, pinState, closePc>>

\* SoftwarePWM.runPWM, after time.Sleep(offTime)
SoftwarePWM_runPWM_low ==
    /\ ctl = "pkg" /\ ~hw /\ mainPc # "exited"
    /\ pwmPc = "low"
    /\ pwmPc' = "loop"
    /\ UNCHANGED <<polVars, btnVars, watchVars, startVars, ctlVars, shutVars, dutyFile, enableFile, hwLastDuty,
                   swDuty, dutyChan, currentDuty, dutyHigh, dutyLow, cycle, swRunning,
                   pwmStop, counter, pinState, line, closePc>>

\* gpiod Line.SetValue: no effect once the line was released by Close
SetValue(v) == IF closePc = "done" THEN line ELSE v

\* GPIOController.runPWM, loop head and select: the loop ends when running
\* is false or the stop channel is closed; otherwise the high phase starts
GPIOController_runPWM_loop ==
    /\ ctl = "cmd" /\ ~hw /\ mainPc # "exited"
    /\ pwmPc = "loop"
    /\ IF ~swRunning \/ pwmStop
       THEN /\ swRunning' = FALSE
            /\ pwmPc' = "done"
            /\ UNCHANGED <<line, cycle>>
       ELSE /\ UNCHANGED swRunning
            /\ IF dutyHigh > 0
               THEN /\ line' = SetValue(1) /\ pwmPc' = "high"
                    /\ cycle' = [high |-> dutyHigh, low |-> -1]
               ELSE IF dutyLow > 0
                    THEN /\ line' = SetValue(0) /\ pwmPc' = "low"
                         /\ cycle' = [high |-> 0, low |-> dutyLow]
                    ELSE UNCHANGED <<line, pwmPc, cycle>>
    /\ UNCHANGED <<polVars, btnVars, watchVars, startVars, ctlVars, shutVars, dutyFile, enableFile, hwLastDuty,
                   swDuty, dutyChan, currentDuty, dutyHigh, dutyLow, pwmStop,
                   counter, pinState, closePc>>

\* GPIOController.runPWM, after time.Sleep(g.dutyHigh)
GPIOController_runPWM_high ==
    /\ ctl = "cmd" /\ ~hw /\ mainPc # "exited"
    /\ pwmPc = "high"
    /\ IF dutyLow > 0
       THEN line' = SetValue(0) /\ pwmPc' = "low"
       ELSE UNCHANGED line /\ pwmPc' = "loop"
    /\ cycle' = [cycle EXCEPT !.low = dutyLow]
    /\ UNCHANGED <<polVars, btnVars, watchVars, startVars, ctlVars, shutVars, dutyFile, enableFile, hwLastDuty,
                   swDuty, dutyChan, currentDuty, dutyHigh, dutyLow, swRunning,
                   pwmStop, counter, pinState, closePc>>

\* GPIOController.runPWM, after time.Sleep(g.dutyLow)
GPIOController_runPWM_low ==
    /\ ctl = "cmd" /\ ~hw /\ mainPc # "exited"
    /\ pwmPc = "low"
    /\ pwmPc' = "loop"
    /\ UNCHANGED <<polVars, btnVars, watchVars, startVars, ctlVars, shutVars, dutyFile, enableFile, hwLastDuty,
                   swDuty, dutyChan, currentDuty, dutyHigh, dutyLow, cycle, swRunning,
                   pwmStop, counter, pinState, line, closePc>>

\* softwarePWMFan.runPWM, case duty := <-s.dutyChan: the clamped duty
ClampedDuty(d) == IF d < 10 THEN 0 ELSE IF d > 990 THEN 1000 ELSE d

softwarePWMFan_recv ==
    /\ ctl = "svc" /\ ~hw /\ mainPc # "exited"
    /\ pwmPc = "loop" /\ dutyChan # <<>>
    /\ LET duty == ClampedDuty(Head(dutyChan))
       IN  /\ currentDuty' = (duty * softwarePwmResolution) \div 1000
           /\ pinState' = IF duty <= 0 THEN 0 ELSE IF duty >= 1000 THEN 1 ELSE pinState
           /\ line' = IF duty <= 0 THEN 0 ELSE IF duty >= 1000 THEN 1 ELSE line
    /\ counter' = 0
    /\ dutyChan' = <<>>
    /\ UNCHANGED <<polVars, btnVars, watchVars, startVars, ctlVars, shutVars, dutyFile, enableFile, hwLastDuty,
                   swDuty, dutyHigh, dutyLow, cycle, swRunning, pwmStop, pwmPc, closePc>>

\* softwarePWMFan.runPWM, case <-ticker.C: nothing for duty 0 or 1, otherwise
\* the counter advances and the line follows counter < threshold
softwarePWMFan_tick ==
    /\ ctl = "svc" /\ ~hw /\ mainPc # "exited"
    /\ pwmPc = "loop"
    /\ IF currentDuty <= 0 \/ currentDuty >= softwarePwmResolution
       THEN UNCHANGED <<counter, pinState, line>>
       ELSE LET c == (counter + 1) % softwarePwmResolution
                level == IF c < currentDuty THEN 1 ELSE 0
            IN  /\ counter' = c
                /\ pinState' = level
                /\ line' = IF pinState # level THEN level ELSE line
    /\ UNCHANGED <<polVars, btnVars, watchVars, startVars, ctlVars, shutVars, dutyFile, enableFile, hwLastDuty,
                   swDuty, dutyChan, currentDuty, dutyHigh, dutyLow, cycle, swRunning,
                   pwmStop, pwmPc, closePc>>

-----------------------------------------------------------------------------
(* Specification of the software PWM backends: the controller sets duties, *)
(* the PWM goroutine runs, and the backend is shut down                    *)

\* the controller calls the backend's set-duty operation
SetDuty_pkg ==
    /\ ctl = "pkg" /\ mainPc = "none" /\ closePc = "none"
    /\ \E d \in PolicyDuties : SoftwarePWM_SetDutyCycle(d)
    /\ UNCHANGED <<polVars, btnVars, watchVars, startVars, ctlVars, shutVars>>

SetDuty_cmd ==
    /\ ctl = "cmd" /\ mainPc = "none" /\ closePc = "none"
    /\ \E d \in PolicyDuties : GPIOController_setDutyCycle(d)
    /\ UNCHANGED <<polVars, btnVars, watchVars, startVars, ctlVars, shutVars>>

\* controlFanLoop: a target that passes the debounce is handed to
\* softwarePWMFan.SetDutyCycle, which returns nil, and is recorded in lastDuty
SetDuty_svc ==
    /\ ctl = "svc" /\ mainPc = "none" /\ closePc = "none"
    /\ \E d \in PolicyDuties :
          /\ NeedsWrite(d, lastDuty)
          /\ softwarePWMFan_SetDutyCycle(d)
          /\ lastDuty' = d
    /\ UNCHANGED <<polVars, btnVars, watchVars, startVars, ctl, hw, lastTemp,
                   stale, op, shutVars>>

\* Controller.Stop calls SoftwarePWM.Close
Close_pkg ==
    /\ ctl = "pkg" /\ mainPc = "none" /\ closePc = "none"
    /\ SoftwarePWM_Close
    /\ closePc' = "done"
    /\ UNCHANGED <<polVars, btnVars, watchVars, startVars, ctlVars, shutVars>>

\* Controller.Close calls GPIOController.Close
Close_cmd ==
    /\ ctl = "cmd" /\ mainPc = "none" /\ closePc = "none"
    /\ GPIOController_Close
    /\ closePc' = "done"
    /\ UNCHANGED <<polVars, btnVars, watchVars, startVars, ctlVars, shutVars>>

\* controlFanLoop calls softwarePWMFan.Cleanup
Cleanup_svc ==
    /\ ctl = "svc" /\ mainPc = "none" /\ closePc = "none"
    /\ softwarePWMFan_CleanupBegin
    /\ closePc' = "sleep"
    /\ UNCHANGED <<polVars, btnVars, watchVars, startVars, ctlVars, shutVars>>

CleanupEnd_svc ==
    /\ ctl = "svc" /\ mainPc = "none" /\ closePc = "sleep"
    /\ softwarePWMFan_CleanupEnd
    /\ closePc' = "done"
    /\ UNCHANGED <<polVars, btnVars, watchVars, startVars, ctlVars, shutVars>>

InitPWM ==
    /\ IdlePol /\ lv = DefaultLv /\ run = TRUE
    /\ ctl \in {"pkg", "cmd", "svc"}
    /\ hw = FALSE
    /\ lastDuty = DutyInvalid /\ lastTemp = 0 /\ stale = TRUE /\ op = NoOp
    /\ dutyFile = -1 /\ enableFile = 0 /\ hwLastDuty = -1
    /\ swDuty = 0 /\ dutyChan = <<>> /\ currentDuty = 0
    /\ dutyHigh = 0 /\ dutyLow = 0 /\ cycle = NoCycle
    /\ swRunning = FALSE
    /\ pwmStop = FALSE
    /\ pwmPc = CASE ctl = "pkg" -> "start" [] ctl = "cmd" -> "none" [] ctl = "svc" -> "loop"
    /\ counter = 0 /\ pinState = 0 /\ line = 0
    /\ closePc = "none"
    /\ IdleShut /\ IdleBtn /\ IdleWatch /\ IdleStart

NextPWM ==
    \/ SetDuty_pkg
    \/ SetDuty_cmd
    \/ SetDuty_svc
    \/ SoftwarePWM_runPWM_start
    \/ SoftwarePWM_runPWM_select
    \/ SoftwarePWM_runPWM_high
    \/ SoftwarePWM_runPWM_low
    \/ GPIOController_runPWM_loop
    \/ GPIOController_runPWM_high
    \/ GPIOController_runPWM_low
    \/ softwarePWMFan_recv
    \/ softwarePWMFan_tick
    \/ softwarePWMFan_stop
    \/ Close_pkg
    \/ Close_cmd
    \/ Cleanup_svc
    \/ CleanupEnd_svc

SpecPWM == InitPWM /\ [][NextPWM]_vars

-----------------------------------------------------------------------------
(* Specification of the fan controllers: one of the three programs, with a  *)
(* hardware or a software backend, from start-up to process exit           *)

Init ==
    /\ IdlePol
    /\ lv = DefaultLv
    /\ run = TRUE
    /\ ctl \in {"pkg", "cmd", "svc"}
    /\ hw \in BOOLEAN
    /\ lastDuty = IF ctl = "cmd" THEN 0 ELSE DutyInvalid
    /\ lastTemp = 0
    /\ stale = TRUE
    /\ op = NoOp
    /\ dutyFile = -1
    /\ enableFile = IF hw THEN 1 ELSE 0
    /\ hwLastDuty = DutyInvalid
    /\ swDuty = 0 /\ dutyChan = <<>> /\ currentDuty = 0
    /\ dutyHigh = 0 /\ dutyLow = 0 /\ cycle = NoCycle
    /\ swRunning = FALSE
    /\ pwmStop = FALSE
    /\ pwmPc = IF hw \/ ctl = "cmd" THEN "none" ELSE IF ctl = "pkg" THEN "start" ELSE "loop"
    /\ counter = 0 /\ pinState = 0 /\ line = 0
    /\ closePc = "none"
    /\ mainPc = "run"
    /\ loopPc = "loop"
    /\ stopClosed = FALSE
    /\ safeOff = FALSE
    /\ IdleBtn /\ IdleWatch /\ IdleStart

Next ==
    \/ TimePasses
    \/ Toggle
    \/ TickPkg
    \/ TickCmd
    \/ TickSvc
    \/ Signal
    \/ MainCloseFanStop
    \/ AppShutdown
    \/ AppShutdown_done
    \/ AppShutdown_timeout
    \/ MainCancel
    \/ MainDeferredClose
    \/ MainExit
    \/ LoopReturn
    \/ LoopCleanup
    \/ LoopCleanupEnd
    \/ softwarePWMFan_stop
    \/ SoftwarePWM_runPWM_start

Spec == Init /\ [][Next]_vars

\* the timer of time.After fires while shutdown waits in its select
SpecLive == Spec /\ WF_vars(AppShutdown_timeout)

-----------------------------------------------------------------------------
(* Button Controller: regex classifier over the buffer of line samples *)

\* A behaviour holds at most this many presses of the button
MaxPresses == 2

\* int(cfg.Time.Twice * 10), int(cfg.Time.Press * 10): truncation to 100 ms units
waitPeriod == (timeTwice * 10) \div 100
pressPeriod == (TimePress * 10) \div 100
bufferSize == pressPeriod

EventChCap == 10
MinBufferLen == 10
TwiceTail == 3

KeyClick == "slider"
KeyTwice == "switch"
KeyPress == "none"

AllAt(buf, from, to, v) == \A x \in from..to : buf[x] = v

\* regexp `1+0{pressPeriod,}` found anywhere in the buffer
MatchPress(buf) ==
    \E i \in 1..Len(buf) :
        /\ buf[i] = 1
        /\ i + pressPeriod <= Len(buf)
        /\ AllAt(buf, i + 1, i + pressPeriod, 0)

\* regexp `1+0+1+0+1{3,}` found anywhere in the buffer
MatchTwice(buf) ==
    \E i \in 1..Len(buf) :
        /\ buf[i] = 1
        /\ \E j \in (i + 1)..Len(buf) :
              /\ AllAt(buf, i + 1, j, 0)
              /\ \E k \in (j + 1)..Len(buf) :
                    /\ AllAt(buf, j + 1, k, 1)
                    /\ \E l \in (k + 1)..Len(buf) :
                          /\ AllAt(buf, k + 1, l, 0)
                          /\ l + TwiceTail <= Len(buf)
                          /\ AllAt(buf, l + 1, l + TwiceTail, 1)

\* regexp `1+0+1{waitPeriod,}` found anywhere in the buffer
MatchClick(buf) ==
    \E i \in 1..Len(buf) :
        /\ buf[i] = 1
        /\ \E j \in (i + 1)..Len(buf) :
              /\ AllAt(buf, i + 1, j, 0)
              /\ j + waitPeriod <= Len(buf)
              /\ AllAt(buf, j + 1, j + waitPeriod, 1)

\* Controller.matchPattern: priority press, twice, click; "" when none matches
matchPattern(buf) ==
    IF MatchPress(buf) THEN "press"
    ELSE IF MatchTwice(buf) THEN "twice"
    ELSE IF MatchClick(buf) THEN "click"
    ELSE ""

GetKeyAction(key) ==
    IF key = "click" THEN KeyClick
    ELSE IF key = "twice" THEN KeyTwice
    ELSE IF key = "press" THEN KeyPress
    ELSE "none"

\* The line as the classifier samples it: runs of equal samples
Pressed == Len(runs) % 2 = 1
RunCap == pressPeriod + 1
RunClass(n, threshold) ==
    IF n = 0 THEN "none" ELSE IF n >= threshold THEN "long" ELSE "short"

Sample(level) ==
    IF level = (IF Pressed THEN 0 ELSE 1)
    THEN /\ cur' = IF cur < RunCap THEN cur + 1 ELSE cur
         /\ UNCHANGED runs
    ELSE /\ level = 0 => Len(runs) \div 2 < MaxPresses
         /\ runs' = Append(runs, RunClass(cur, IF Pressed THEN pressPeriod
                                                         ELSE waitPeriod))
         /\ cur' = 1

\* One ticker iteration of Controller.monitorLoop
monitorLoop ==
    /\ \E level \in {0, 1} :
          /\ Sample(level)
          /\ LET appended == Append(buffer, level)
                 trimmed == IF Len(appended) > bufferSize
                            THEN Tail(appended) ELSE appended
                 event == IF Len(trimmed) >= MinBufferLen
                          THEN matchPattern(trimmed) ELSE ""
             IN IF event # "" /\ Len(eventCh) < EventChCap
                THEN /\ eventCh' = Append(eventCh, event)
                     /\ sent' = Append(sent, event)
                     /\ buffer' = <<>>
                ELSE /\ buffer' = trimmed
                     /\ UNCHANGED <<eventCh, sent>>
    /\ UNCHANGED <<polVars, ctlVars, pwmVars, shutVars, startVars, watchVars, timeTwice, hdlVars>>

\* Application.handleButtonEvents, launched by Application.start only with
\* hasOLED set, receives one event and runs its action
handleButtonEvents ==
    /\ hasOLED
    /\ eventCh # <<>>
    /\ eventCh' = Tail(eventCh)
    /\ run' = IF GetKeyAction(Head(eventCh)) = "switch" THEN ~run ELSE run
    /\ UNCHANGED <<temp, lv, pol, toggleCalls, ctlVars, pwmVars, shutVars, startVars, watchVars,
                   buffer, sent, runs, cur, timeTwice, hdlVars>>

InitButton ==
    /\ IdlePol
    /\ lv = DefaultLv
    /\ run = TRUE
    /\ IdleCtl /\ IdlePwm /\ IdleShut
    /\ buffer = <<>>
    /\ eventCh = <<>>
    /\ sent = <<>>
    /\ runs = <<>>
    /\ cur = 0
    /\ timeTwice = TimeTwice
    /\ IdleHdl /\ IdleWatch /\ IdleStart

NextButton ==
    \/ monitorLoop
    \/ handleButtonEvents

SpecButton == InitButton /\ [][NextButton]_vars

\* Controller.Initialize with a configured double-click window other than
\* the default: zero, and 0.75 s
InitButtonCfg ==
    /\ IdlePol
    /\ lv = DefaultLv
    /\ run = TRUE
    /\ IdleCtl /\ IdlePwm /\ IdleShut
    /\ buffer = <<>>
    /\ eventCh = <<>>
    /\ sent = <<>>
    /\ runs = <<>>
    /\ cur = 0
    /\ timeTwice \in {0, 75}
    /\ IdleHdl /\ IdleWatch /\ IdleStart

SpecButtonCfg == InitButtonCfg /\ [][NextButton]_vars

\* the Application with and without a display; handleButtonEvents is
\* scheduled whenever it can receive
InitButtonApp ==
    /\ IdlePol
    /\ lv = DefaultLv
    /\ run = TRUE
    /\ IdleCtl /\ IdlePwm /\ IdleShut
    /\ buffer = <<>>
    /\ eventCh = <<>>
    /\ sent = <<>>
    /\ runs = <<>>
    /\ cur = 0
    /\ timeTwice = TimeTwice
    /\ IdleHdl /\ IdleWatch
    /\ startPc = "running" /\ btnPin = "set" /\ btnMutex = "free"
    /\ fanPwm = "ok" /\ fanMutex = "free"
    /\ IdleLife
    /\ hasOLED \in BOOLEAN

SpecButtonApp == InitButtonApp /\ [][NextButton]_vars /\ WF_vars(handleButtonEvents)

-----------------------------------------------------------------------------
(* button.Handler: the gpiod button handler (detectButtonEvent, analyzePattern) *)

\* the ticker period of detectButtonEvent, 100 ms, in hundredths of a second
TickerPeriod == 10
\* `+ time.Second` of the first timeout
FirstTimeoutExtra == 100
\* the most state changes of the line within one detection
MaxChanges == 3
\* scheduling latency between the tick and time.Now(), in hundredths: a
\* timestamp lies at or just after its tick
Jitter == {0, 1}

RECURSIVE Durations(_)
\* durations = append(durations, timestamps[i].Sub(timestamps[i-1]))
Durations(ts) ==
    IF Len(ts) < 2 THEN <<>>
    ELSE <<ts[2] - ts[1]>> \o Durations(Tail(ts))

\* Handler.analyzePattern with the default windows
analyzePattern(pat, ts) ==
    LET durations == Durations(ts)
        doubleClickTimeout == TimeTwice
        longPressTimeout == TimePress
        pressRelease == Len(pat) >= 2 /\ pat[1] = 1 /\ pat[2] = 0
    IN  IF Len(pat) = 0 THEN "none"
        ELSE IF pressRelease /\ Len(durations) > 0 /\ durations[1] > longPressTimeout
        THEN "press"
        ELSE IF /\ Len(pat) >= 4
                /\ pat[1] = 1 /\ pat[2] = 0 /\ pat[3] = 1 /\ pat[4] = 0
                /\ Len(durations) >= 2 /\ durations[2] < doubleClickTimeout
        THEN "twice"
        ELSE IF pressRelease /\ Len(durations) > 0 /\ durations[1] < longPressTimeout
        THEN "click"
        ELSE "none"

\* detectButtonEvent, `case <-ticker.C`: one read of the line; a failed read
\* leaves everything but the time as it was, like a read of the same state
detectButtonEvent_tick ==
    /\ detected = "" /\ timeout > 0
    /\ \E state \in {0, 1}, j \in Jitter :
          LET tick == IF pattern = <<>> THEN 0 ELSE now + TickerPeriod
          IN  /\ now' = tick
              /\ IF state # lastState
                 THEN /\ Len(pattern) < MaxChanges
                      /\ pattern' = Append(pattern, state)
                      /\ timestamps' = Append(timestamps, tick + j)
                      /\ lastState' = state
                      /\ timeout' = TimePress
                 ELSE /\ timeout' = timeout - TickerPeriod
                      /\ UNCHANGED <<pattern, timestamps, lastState>>
    /\ UNCHANGED <<polVars, ctlVars, pwmVars, shutVars, startVars, watchVars,
                   buffer, eventCh, sent, runs, cur, timeTwice, detected>>

\* detectButtonEvent, `case <-timeout`: the pattern is analyzed and returned;
\* pattern and timestamps stay as the arguments analyzePattern was given
detectButtonEvent_timeout ==
    /\ detected = "" /\ timeout = 0
    /\ detected' = analyzePattern(pattern, timestamps)
    /\ UNCHANGED <<polVars, ctlVars, pwmVars, shutVars, startVars, watchVars,
                   buffer, eventCh, sent, runs, cur, timeTwice,
                   pattern, timestamps, lastState, timeout, now>>

\* detectButtonEvent, `case <-ctx.Done()`: the call returns ctx.Err() and
\* its locals are gone
detectButtonEvent_ctxDone ==
    /\ detected = ""
    /\ detected' = "canceled"
    /\ pattern' = <<>> /\ timestamps' = <<>> /\ lastState' = 1
    /\ timeout' = 0 /\ now' = 0
    /\ UNCHANGED <<polVars, ctlVars, pwmVars, shutVars, startVars, watchVars,
                   buffer, eventCh, sent, runs, cur, timeTwice>>

\* Handler.Run: the event has been mapped to its action and the next
\* detection begins with a read of the line
Handler_Run ==
    /\ detected \notin {"", "canceled"}
    /\ pattern' = <<>> /\ timestamps' = <<>>
    /\ lastState' \in {0, 1}
    /\ timeout' = TimePress + FirstTimeoutExtra
    /\ now' = 0
    /\ detected' = ""
    /\ UNCHANGED <<polVars, ctlVars, pwmVars, shutVars, startVars, watchVars,
                   buffer, eventCh, sent, runs, cur, timeTwice>>

InitHandler ==
    /\ IdlePol
    /\ lv = DefaultLv
    /\ run = TRUE
    /\ IdleCtl /\ IdlePwm /\ IdleShut
    /\ buffer = <<>> /\ eventCh = <<>> /\ sent = <<>> /\ runs = <<>> /\ cur = 0
    /\ timeTwice = TimeTwice
    /\ pattern = <<>> /\ timestamps = <<>>
    /\ lastState \in {0, 1}
    /\ timeout = TimePress + FirstTimeoutExtra
    /\ now = 0
    /\ detected = ""
    /\ IdleWatch /\ IdleStart

NextHandler ==
    \/ detectButtonEvent_tick
    \/ detectButtonEvent_timeout
    \/ detectButtonEvent_ctxDone
    \/ Handler_Run

SpecHandler == InitHandler /\ [][NextHandler]_vars

-----------------------------------------------------------------------------
(* buttonWatcher: the classifier of rockpi-penta-service *)

\* int(conf.Time.Press / 0.1) with Press = 1.8: the float quotient is 18.0
pressSamples == 18
\* int(conf.Time.Twice / 0.1) with Twice = 0.7: the float quotient is
\* 6.999999999999999, which int() truncates
\* hundredths x for which the float64 quotient x / 0.1 lies just below the
\* integer x * 10, so that int() gives one less
TruncBelow == {30, 60, 70, 120, 140, 190, 230, 240, 280, 290}
waitSamples ==
    IF timeTwice \in TruncBelow THEN timeTwice \div 10 - 1 ELSE timeTwice \div 10
maxGapSamples == waitSamples
\* newButtonWatcher: bufferSize is pressDuration + 5
BufferExtra == 5
watchBufferSize == pressSamples + BufferExtra
EventChanCap == 5
TwiceFinalOnes == 3

\* strings.Repeat("1", bw.bufferSize)
AllOnes == [i \in 1..watchBufferSize |-> 1]

\* strings.LastIndex(buffer[:upto], v), 1-based; 0 when v does not occur
LastIndex(buf, v, upto) ==
    IF \E i \in 1..upto : buf[i] = v
    THEN CHOOSE i \in 1..upto : buf[i] = v /\ \A j \in (i + 1)..upto : buf[j] # v
    ELSE 0

\* pressPattern `1+0+$`
MatchPressPattern(buf) ==
    /\ buf[Len(buf)] = 0
    /\ LastIndex(buf, 1, Len(buf)) > 0

\* clickPattern `1+0+1+$`
MatchClickPattern(buf) ==
    /\ buf[Len(buf)] = 1
    /\ LET lastZero == LastIndex(buf, 0, Len(buf))
       IN  lastZero > 0 /\ LastIndex(buf, 1, lastZero) > 0

\* twicePattern `1+0+1+0+1+$`
MatchTwicePattern(buf) ==
    /\ buf[Len(buf)] = 1
    /\ LET lastZero == LastIndex(buf, 0, Len(buf))
           lastOne == IF lastZero > 0 THEN LastIndex(buf, 1, lastZero) ELSE 0
           secondLastZero == IF lastOne > 0 THEN LastIndex(buf, 0, lastOne) ELSE 0
       IN  secondLastZero > 0 /\ LastIndex(buf, 1, secondLastZero) > 0

\* buttonWatcher.checkPressTiming
checkPressTiming(buf) ==
    LET lastOne == LastIndex(buf, 1, Len(buf))
    IN  /\ lastOne # 0 /\ lastOne # Len(buf)
        /\ Len(buf) - lastOne >= pressSamples

\* buttonWatcher.checkClickTiming
checkClickTiming(buf) ==
    LET lastZero == LastIndex(buf, 0, Len(buf))
        firstOneBeforeLastZero == LastIndex(buf, 1, lastZero)
    IN  /\ lastZero # 0 /\ lastZero # Len(buf)
        /\ firstOneBeforeLastZero # 0
        /\ Len(buf) - lastZero >= waitSamples
        /\ lastZero - firstOneBeforeLastZero < pressSamples

\* buttonWatcher.checkTwiceTiming
checkTwiceTiming(buf) ==
    LET lastZero == LastIndex(buf, 0, Len(buf))
        lastOneBeforeLastZero == LastIndex(buf, 1, lastZero)
        secondLastZero == LastIndex(buf, 0, lastOneBeforeLastZero)
        firstOneBeforeSecondLastZero == LastIndex(buf, 1, secondLastZero)
    IN  /\ lastZero # 0 /\ lastZero # Len(buf)
        /\ Len(buf) - lastZero >= TwiceFinalOnes
        /\ lastOneBeforeLastZero # 0
        /\ secondLastZero # 0
        /\ firstOneBeforeSecondLastZero # 0
        /\ secondLastZero - firstOneBeforeSecondLastZero < pressSamples
        /\ lastZero - lastOneBeforeLastZero < pressSamples
        /\ lastOneBeforeLastZero - secondLastZero < maxGapSamples

\* the event one iteration of watch detects for the trimmed buffer; "" for none
watchEvent(buf, level) ==
    IF level = 1 /\ lastLevel = 0 /\ MatchTwicePattern(buf) /\ checkTwiceTiming(buf)
    THEN "twice"
    ELSE IF level = 1 /\ lastLevel = 0 /\ MatchClickPattern(buf) /\ checkClickTiming(buf)
    THEN "click"
    ELSE IF level = 0 /\ MatchPressPattern(buf) /\ checkPressTiming(buf)
    THEN "press"
    ELSE ""

\* one iteration of buttonWatcher.watch: the send on eventChan blocks while
\* the channel is full
watch ==
    /\ watchPc = "loop" /\ mainPc # "exited"
    /\ \E level \in {0, 1} :
          /\ Sample(level)
          /\ LET appended == Append(stateBuffer, level)
                 trimmed == IF Len(appended) > watchBufferSize
                            THEN Tail(appended) ELSE appended
                 event == watchEvent(trimmed, level)
                 released == IF level = 1 THEN 0 ELSE holdPress
             IN IF event = ""
                THEN /\ stateBuffer' = trimmed
                     /\ lastLevel' = level
                     /\ holdPress' = released
                     /\ UNCHANGED <<eventChan, watchPc, pending, sent>>
                ELSE IF Len(eventChan) < EventChanCap
                THEN /\ eventChan' = Append(eventChan, event)
                     /\ sent' = IF event = "press" THEN sent ELSE Append(sent, event)
                     /\ stateBuffer' = AllOnes
                     /\ lastLevel' = level
                     /\ holdPress' = IF event = "press" /\ released < 2
                                     THEN released + 1 ELSE released
                     /\ UNCHANGED <<watchPc, pending>>
                ELSE /\ stateBuffer' = trimmed
                     /\ watchPc' = "blocked"
                     /\ pending' = event
                     /\ holdPress' = released
                     /\ UNCHANGED <<eventChan, lastLevel, sent>>
    /\ UNCHANGED <<polVars, ctlVars, pwmVars, shutVars, startVars, buffer, eventCh,
                   timeTwice, hdlVars, idx>>

\* watch, blocked in `bw.eventChan <- event`: the send completes once a
\* receiver has made room
watch_send ==
    /\ watchPc = "blocked" /\ mainPc # "exited"
    /\ Len(eventChan) < EventChanCap
    /\ eventChan' = Append(eventChan, pending)
    /\ stateBuffer' = AllOnes
    /\ lastLevel' = IF pending = "press" THEN 0 ELSE 1
    /\ holdPress' = IF pending = "press" /\ holdPress < 2
                    THEN holdPress + 1 ELSE holdPress
    /\ pending' = ""
    /\ watchPc' = "loop"
    /\ sent' = IF pending = "press" THEN sent ELSE Append(sent, pending)
    /\ UNCHANGED <<polVars, ctlVars, pwmVars, shutVars, startVars, buffer, eventCh,
                   runs, cur, timeTwice, hdlVars, idx>>

\* rockpi-penta-service main, mainLoop: case event := <-buttonEventChan
mainLoop_event ==
    /\ mainPc = "run"
    /\ eventChan # <<>>
    /\ eventChan' = Tail(eventChan)
    /\ run' = IF GetKeyAction(Head(eventChan)) = "switch" THEN ~run ELSE run
    /\ UNCHANGED <<temp, lv, pol, toggleCalls, ctlVars, pwmVars, shutVars, startVars, btnVars,
                   stateBuffer, lastLevel, watchPc, pending, holdPress, idx>>

\* RunSlider, case evt := <-buttonChan: the same channel mainLoop receives
\* from; an EventClick advances the page, any other event is dropped
numPages == 4

RunSlider_event ==
    /\ mainPc = "run"
    /\ eventChan # <<>>
    /\ eventChan' = Tail(eventChan)
    /\ idx' = IF Head(eventChan) = "click" THEN (idx + 1) % numPages ELSE idx
    /\ UNCHANGED <<polVars, ctlVars, pwmVars, shutVars, startVars, btnVars,
                   stateBuffer, lastLevel, watchPc, pending, holdPress>>

InitWatch ==
    /\ IdlePol
    /\ lv = DefaultLv
    /\ run = TRUE
    /\ ctl = "svc" /\ hw = FALSE /\ lastDuty = DutyInvalid
    /\ lastTemp = 0 /\ stale = TRUE /\ op = NoOp
    /\ IdlePwm /\ IdleBtn
    /\ mainPc = "run" /\ loopPc = "none" /\ stopClosed = FALSE /\ safeOff = FALSE
    /\ stateBuffer = AllOnes
    /\ lastLevel = 1
    /\ eventChan = <<>>
    /\ watchPc = "loop"
    /\ pending = ""
    /\ holdPress = 0
    /\ idx = 0
    /\ IdleStart

NextWatch ==
    \/ watch
    \/ watch_send
    \/ mainLoop_event
    \/ RunSlider_event
    \/ Signal
    \/ MainCloseFanStop
    \/ MainExit

SpecWatch == InitWatch /\ [][NextWatch]_vars

\* the service configured with time.twice = 0.1 s, which makes waitSamples 1
InitWatchCfg ==
    /\ IdlePol
    /\ lv = DefaultLv
    /\ run = TRUE
    /\ ctl = "svc" /\ hw = FALSE /\ lastDuty = DutyInvalid
    /\ lastTemp = 0 /\ stale = TRUE /\ op = NoOp
    /\ IdlePwm
    /\ buffer = <<>> /\ eventCh = <<>> /\ sent = <<>> /\ runs = <<>> /\ cur = 0
    /\ timeTwice = 10
    /\ IdleHdl
    /\ mainPc = "run" /\ loopPc = "none" /\ stopClosed = FALSE /\ safeOff = FALSE
    /\ stateBuffer = AllOnes
    /\ lastLevel = 1
    /\ eventChan = <<>>
    /\ watchPc = "loop"
    /\ pending = ""
    /\ holdPress = 0
    /\ idx = 0
    /\ IdleStart

SpecWatchCfg == InitWatchCfg /\ [][NextWatch]_vars

-----------------------------------------------------------------------------
(* AtomicBool.Toggle on the run state, called from several goroutines *)

\* one atomic step of a Toggle call: old := ab.Load(); the argument
\* atomic.LoadInt32(&ab.value); CompareAndSwapInt32 with that value as the
\* expected one, returning !old on success and looping otherwise
AtomicBool_Toggle ==
    /\ \E i \in 1..Len(toggleCalls) :
         LET c == toggleCalls[i]
         IN  \/ /\ c.pc = "Load"
                /\ toggleCalls' = [toggleCalls EXCEPT ![i] =
                                     [c EXCEPT !.pc = "LoadInt32", !.old = run]]
                /\ UNCHANGED run
             \/ /\ c.pc = "LoadInt32"
                /\ toggleCalls' = [toggleCalls EXCEPT ![i] =
                                     [c EXCEPT !.pc = "CompareAndSwapInt32",
                                               !.expected = run]]
                /\ UNCHANGED run
             \/ /\ c.pc = "CompareAndSwapInt32"
                /\ IF run = c.expected
                   THEN /\ run' = ~c.old
                        /\ toggleCalls' = [toggleCalls EXCEPT ![i].pc = "returned"]
                   ELSE /\ UNCHANGED run
                        /\ toggleCalls' = [toggleCalls EXCEPT ![i].pc = "Load"]
    /\ UNCHANGED <<temp, lv, pol, ctlVars, pwmVars, shutVars, btnVars, watchVars,
                   startVars>>

InitToggle ==
    /\ temp = 0 /\ pol = NoPol
    /\ lv = DefaultLv
    /\ run \in BOOLEAN
    /\ \E n \in 1..MaxToggles :
         toggleCalls = [i \in 1..n |-> [pc |-> "Load", old |-> FALSE,
                                        expected |-> FALSE, initial |-> run]]
    /\ IdleCtl /\ IdlePwm /\ IdleShut /\ IdleBtn /\ IdleWatch /\ IdleStart

SpecToggle == InitToggle /\ [][AtomicBool_Toggle]_vars

-----------------------------------------------------------------------------
(* Start-up: Application.initialize / start, rockpi-penta-service main, and *)
(* a client of the fan Controller calling Initialize and Start              *)

InitResults == {"ok", "nocfg", "backend"}

\* Controller.Initialize (fan): c.pwm after the call. With HWConfig nil the
\* field is left alone; a failed initHardwarePWM / initSoftwarePWM returns a
\* nil pointer, which the assignment stores in the interface field
FanPwmAfter(res) ==
    IF res = "ok" THEN "ok" ELSE IF res = "nocfg" THEN fanPwm ELSE "typednil"

\* Application.initialize: hasOLED is the outcome of the display's
\* Initialize; a fan failure is returned to main, which calls log.Fatalf; a
\* button failure is logged
App_initialize ==
    /\ ctl = "pkg" /\ startPc = "initialize"
    /\ \E res \in InitResults, btnOk \in BOOLEAN, oledOk \in BOOLEAN :
          /\ hasOLED' = oledOk
          /\ fanPwm' = FanPwmAfter(res)
          /\ IF res = "ok"
             THEN /\ btnPin' = IF btnOk THEN "set" ELSE "nil"
                  /\ startPc' = "start"
                  /\ UNCHANGED mainPc
             ELSE /\ startPc' = "fatalFan"
                  /\ mainPc' = "exited"
                  /\ UNCHANGED btnPin
    /\ UNCHANGED <<polVars, btnVars, watchVars, ctlVars, pwmVars,
                   loopPc, stopClosed, safeOff, btnMutex, fanMutex, lifeVars>>

\* Application.start: fanController.Start, then the display's Start, whose
\* failure clears hasOLED, then buttonController.Start, which
\* locks the mutex and, with pin nil, calls Initialize, which locks it again
App_start ==
    /\ ctl = "pkg" /\ startPc = "start"
    /\ loopPc' = "loop"
    /\ \E oledStarted \in BOOLEAN : hasOLED' = (hasOLED /\ oledStarted)
    /\ IF btnPin = "nil"
       THEN startPc' = "blocked" /\ btnMutex' = "Start"
       ELSE startPc' = "running" /\ UNCHANGED btnMutex
    /\ UNCHANGED <<polVars, btnVars, watchVars, ctlVars, pwmVars,
                   mainPc, stopClosed, safeOff, btnPin, fanPwm, fanMutex, lifeVars>>

\* rockpi-penta-service main: StartFanControl, then, with the top board
\* present, StartButtonWatcher; each failure ends in log.Fatalf
main_startup ==
    /\ ctl = "svc" /\ startPc = "initialize"
    /\ \E fanOk \in BOOLEAN, topBoard \in BOOLEAN, btnOk \in BOOLEAN :
          IF ~fanOk
          THEN /\ startPc' = "fatalFan"
               /\ mainPc' = "exited"
               /\ UNCHANGED <<loopPc, fanPwm, btnPin>>
          ELSE /\ fanPwm' = "ok"
               /\ loopPc' = "loop"
               /\ btnPin' = IF topBoard /\ btnOk THEN "set" ELSE "nil"
               /\ startPc' = IF topBoard /\ ~btnOk THEN "fatalButton" ELSE "running"
               /\ mainPc' = IF topBoard /\ ~btnOk THEN "exited" ELSE mainPc
    /\ UNCHANGED <<polVars, btnVars, watchVars, ctlVars, pwmVars,
                   stopClosed, safeOff, btnMutex, fanMutex, lifeVars, hasOLED>>

\* Controller.Initialize (fan), called by a client: a backend left in c.pwm
\* is closed first, which dereferences the nil pointer of a failed attempt
Controller_Initialize ==
    /\ ctl = "pkg" /\ startPc = "client"
    /\ fanMutex = "free"
    /\ \E res \in InitResults :
          IF fanPwm = "typednil"
          THEN startPc' = "panic" /\ mainPc' = "exited" /\ UNCHANGED fanPwm
          ELSE fanPwm' = FanPwmAfter(res) /\ UNCHANGED <<startPc, mainPc>>
    /\ UNCHANGED <<polVars, btnVars, watchVars, ctlVars, pwmVars,
                   loopPc, stopClosed, safeOff, btnPin, btnMutex, fanMutex, lifeVars, hasOLED>>

\* Controller.Start (fan), called by a client while not running: with c.pwm
\* nil it calls Initialize under its own lock; otherwise controlLoop starts
Controller_Start ==
    /\ ctl = "pkg" /\ startPc = "client" /\ loopPc = "none"
    /\ fanMutex = "free"
    /\ IF fanPwm = "nil"
       THEN startPc' = "blocked" /\ fanMutex' = "Start" /\ UNCHANGED loopPc
       ELSE loopPc' = "loop" /\ UNCHANGED <<startPc, fanMutex>>
    /\ UNCHANGED <<polVars, btnVars, watchVars, ctlVars, pwmVars,
                   mainPc, stopClosed, safeOff, btnPin, btnMutex, fanPwm, lifeVars, hasOLED>>

\* Controller.updateFanSpeed with c.pwm holding a nil backend pointer:
\* c.pwm.SetDutyCycle is invoked and dereferences it
updateFanSpeed_uninit ==
    /\ ctl = "pkg" /\ loopPc = "loop" /\ mainPc # "exited"
    /\ fanPwm = "typednil"
    /\ \E t \in SensorTemps, rok \in BOOLEAN :
         IF stale /\ ~rok
         THEN /\ op' = SkippedTick
              /\ UNCHANGED <<lastTemp, stale, startPc, mainPc>>
         ELSE LET tmp == IF stale THEN t ELSE lastTemp
                  duty == GetFanDutyCycle(tmp, lv, run)
                  call == Differs(duty, lastDuty)
              IN  /\ lastTemp' = tmp
                  /\ stale' = FALSE
                  /\ op' = [kind |-> "tick", target |-> duty, before |-> lastDuty,
                            called |-> call, ok |-> FALSE,
                            offTicks |-> OffTicks(call)]
                  /\ startPc' = IF call THEN "panic" ELSE startPc
                  /\ mainPc' = IF call THEN "exited" ELSE mainPc
    /\ UNCHANGED <<polVars, btnVars, watchVars, ctl, hw, lastDuty, pwmVars,
                   loopPc, stopClosed, safeOff, btnPin, btnMutex, fanPwm, fanMutex, lifeVars, hasOLED>>

\* Controller.GetTemperature, called by a client: the read lock is taken and
\* c.lastTemp is read
Controller_GetTemperature ==
    /\ ctl = "pkg" /\ startPc = "client"
    /\ fanMutex = "free"
    /\ fanMutex' = "GetTemperature"
    /\ UNCHANGED <<polVars, btnVars, watchVars, ctlVars, pwmVars, shutVars,
                   startPc, btnPin, btnMutex, fanPwm, lifeVars, hasOLED>>

\* Controller.GetTemperature returns: the deferred RUnlock
Controller_GetTemperature_return ==
    /\ ctl = "pkg" /\ fanMutex = "GetTemperature"
    /\ fanMutex' = "free"
    /\ UNCHANGED <<polVars, btnVars, watchVars, ctlVars, pwmVars, shutVars,
                   startPc, btnPin, btnMutex, fanPwm, lifeVars, hasOLED>>

InitStart ==
    /\ IdlePol /\ lv = DefaultLv /\ run = TRUE
    /\ ctl \in {"pkg", "svc"}
    /\ hw \in BOOLEAN
    /\ lastDuty = DutyInvalid /\ lastTemp = 0 /\ stale = TRUE /\ op = NoOp
    /\ dutyFile = -1 /\ enableFile = 0 /\ hwLastDuty = DutyInvalid
    /\ swDuty = 0 /\ dutyChan = <<>> /\ currentDuty = 0
    /\ dutyHigh = 0 /\ dutyLow = 0 /\ cycle = NoCycle /\ swRunning = FALSE /\ pwmStop = FALSE
    /\ pwmPc = "none" /\ counter = 0 /\ pinState = 0 /\ line = 0
    /\ closePc = "none"
    /\ mainPc = "start" /\ loopPc = "none" /\ stopClosed = FALSE /\ safeOff = FALSE
    /\ IdleBtn /\ IdleWatch
    /\ startPc \in (IF ctl = "pkg" THEN {"initialize", "client"} ELSE {"initialize"})
    /\ btnPin = "nil" /\ btnMutex = "free"
    /\ fanPwm = "nil" /\ fanMutex = "free"
    /\ IdleLife /\ hasOLED = FALSE

NextStart ==
    \/ App_initialize
    \/ App_start
    \/ main_startup
    \/ Controller_Initialize
    \/ Controller_Start
    \/ updateFanSpeed_uninit
    \/ Controller_GetTemperature
    \/ Controller_GetTemperature_return
    \/ TickPkg
    \/ TickSvc
    \/ TimePasses

SpecStart == InitStart /\ [][NextStart]_vars

-----------------------------------------------------------------------------
(* Life cycle of the fan Controller: Start and Stop called repeatedly, with *)
(* the controlLoop goroutines they launch                                    *)

\* the most calls of Start
MaxStarts == 2

\* Controller.updateFanSpeed on an initialized backend
updateFanSpeed(t, rok, wok) ==
    IF stale /\ ~rok
    THEN /\ op' = SkippedTick
         /\ UNCHANGED <<lastDuty, lastTemp, stale, pwmVars>>
    ELSE LET tmp == IF stale THEN t ELSE lastTemp
             duty == GetFanDutyCycle(tmp, lv, run)
             call == Differs(duty, lastDuty)
             ok == call /\ (hw => wok)
         IN  /\ lastTemp' = tmp
             /\ stale' = FALSE
             /\ IF call
                THEN IF hw THEN HardwarePWM_SetDutyCycle(duty, wok)
                           ELSE SoftwarePWM_SetDutyCycle(duty)
                ELSE UNCHANGED pwmVars
             /\ lastDuty' = IF ok THEN duty ELSE lastDuty
             /\ op' = [kind |-> "tick", target |-> duty, before |-> lastDuty,
                       called |-> call, ok |-> ok,
                       offTicks |-> OffTicks(call /\ ~ok)]

\* Controller.Start with a backend in c.pwm: running is set, a new stop
\* channel is made and a controlLoop goroutine is launched
Controller_StartLoop ==
    /\ ctl = "pkg" /\ startPc = "life" /\ fanMutex = "free"
    /\ ~cRunning
    /\ Len(loops) < MaxStarts
    /\ cRunning' = TRUE
    /\ stopCh' = stopCh + 1
    /\ loops' = Append(loops, [pc |-> "select", seen |-> stopCh + 1])
    /\ UNCHANGED <<polVars, btnVars, watchVars, ctlVars, pwmVars, shutVars,
                   startPc, btnPin, btnMutex, fanPwm, fanMutex, hasOLED, closedChs>>

\* Controller.Stop while running: running is cleared, c.stopCh is closed
\* and the backend is closed
Controller_Stop ==
    /\ ctl = "pkg" /\ startPc = "life" /\ fanMutex = "free"
    /\ cRunning
    /\ cRunning' = FALSE
    /\ closedChs' = closedChs \cup {stopCh}
    /\ IF hw THEN HardwarePWM_Close ELSE SoftwarePWM_Close
    /\ closePc' = "done"
    /\ UNCHANGED <<polVars, btnVars, watchVars, ctlVars, shutVars,
                   startPc, btnPin, btnMutex, fanPwm, fanMutex, hasOLED, stopCh, loops>>

\* Controller.controlLoop, the select: c.stopCh is read without the mutex,
\* so a loop racing with Start reads the channel it read before or the new
\* one; a closed channel lets it return, the ticker starts a tick
controlLoop_select ==
    /\ ctl = "pkg" /\ startPc = "life"
    /\ \E i \in 1..Len(loops) : \E ch \in {loops[i].seen, stopCh} :
          /\ loops[i].pc = "select"
          /\ \/ /\ ch \in closedChs
                /\ loops' = [loops EXCEPT ![i] = [pc |-> "done", seen |-> ch]]
             \/ loops' = [loops EXCEPT ![i] = [pc |-> "tick", seen |-> ch]]
    /\ UNCHANGED <<polVars, btnVars, watchVars, ctlVars, pwmVars, shutVars,
                   startPc, btnPin, btnMutex, fanPwm, fanMutex, hasOLED,
                   cRunning, stopCh, closedChs>>

\* Controller.controlLoop, case <-ticker.C: updateFanSpeed runs, without the
\* mutex, and the loop is back at its select
controlLoop_updateFanSpeed ==
    /\ ctl = "pkg" /\ startPc = "life"
    /\ \E i \in 1..Len(loops) :
          /\ loops[i].pc = "tick"
          /\ loops' = [loops EXCEPT ![i].pc = "select"]
    /\ \E t \in SensorTemps, rok \in BOOLEAN, wok \in BOOLEAN :
          updateFanSpeed(t, rok, wok)
    /\ UNCHANGED <<polVars, btnVars, watchVars, ctl, hw, shutVars,
                   startPc, btnPin, btnMutex, fanPwm, fanMutex, hasOLED,
                   cRunning, stopCh, closedChs>>

\* GetInstance and Initialize have returned: the backend is in c.pwm, a
\* software backend's goroutine runs, no control loop was started yet
InitLife ==
    /\ IdlePol /\ lv = DefaultLv /\ run = TRUE
    /\ ctl = "pkg"
    /\ hw \in BOOLEAN
    /\ lastDuty = DutyInvalid /\ lastTemp = 0 /\ stale = TRUE /\ op = NoOp
    /\ dutyFile = -1 /\ hwLastDuty = DutyInvalid
    /\ enableFile = IF hw THEN 1 ELSE 0
    /\ swDuty = 0 /\ dutyChan = <<>> /\ currentDuty = 0
    /\ dutyHigh = 0 /\ dutyLow = 0 /\ cycle = NoCycle
    /\ swRunning = ~hw /\ pwmStop = FALSE
    /\ pwmPc = IF hw THEN "none" ELSE "loop"
    /\ counter = 0 /\ pinState = 0 /\ line = 0
    /\ closePc = "none"
    /\ mainPc = "run" /\ loopPc = "none" /\ stopClosed = FALSE /\ safeOff = FALSE
    /\ IdleBtn /\ IdleWatch
    /\ startPc = "life"
    /\ btnPin = "set" /\ btnMutex = "free"
    /\ fanPwm = "ok" /\ fanMutex = "free"
    /\ IdleLife /\ hasOLED = TRUE

NextLife ==
    \/ Controller_StartLoop
    \/ Controller_Stop
    \/ controlLoop_select
    \/ controlLoop_updateFanSpeed
    \/ TimePasses

SpecLife == InitLife /\ [][NextLife]_vars

-----------------------------------------------------------------------------
(* Properties *)

\* C1: in every controller variant, a tick whose backend set-duty call failed
\* leaves the controller's recorded last duty as it was before the tick, so
\* that the same target is written again on the next tick.
C1_FailedWriteKeepsLastDuty ==
    (op.kind = "tick" /\ op.called /\ ~op.ok) => lastDuty = op.before

\* C2: when the process has exited after a shutdown signal, the backend's
\* safe-shutdown action (hardware: 'enable' written 0; software: line driven
\* low) has been performed.
C2_SafeOffBeforeExit ==
    mainPc = "exited" => safeOff /\ (hw => enableFile = 0)

\* C3: once the software backend's shutdown operation has returned, its PWM
\* loop has been signalled to stop and the output line is low.
C3_CloseStopsAndDrivesLow ==
    closePc = "done" => pwmStop /\ line = 0

\* C4: with the run state true, every duty policy returns 0.0 if temp >= lv3,
\* else 0.25 if temp >= lv2, else 0.50 if temp >= lv1, else 0.75 if
\* temp >= lv0, else 0.999, for every temperature and thresholds.
C4_ThresholdTable ==
    (pol.fn # "none" /\ (run \/ pol.fn = "GetFanDutyCycle_cmd")) =>
        /\ temp >= lv[4] => pol.duty = DutyFull
        /\ (temp < lv[4] /\ temp >= lv[3]) => pol.duty = Duty25
        /\ (temp < lv[4] /\ temp < lv[3] /\ temp >= lv[2]) => pol.duty = Duty50
        /\ (temp < lv[4] /\ temp < lv[3] /\ temp < lv[2] /\ temp >= lv[1])
               => pol.duty = Duty75
        /\ (temp < lv[4] /\ temp < lv[3] /\ temp < lv[2] /\ temp < lv[1])
               => pol.duty = DutyOff

\* C4 witness: thresholds out of order, a temperature at which the order of
\* the tests decides, and the policy of the service answered full speed
C4_Witness ==
    /\ pol.fn = "getFanDutyCycle" /\ run
    /\ lv[4] < lv[1] /\ temp >= lv[4] /\ temp < lv[1]
    /\ pol.duty = DutyFull

\* C5: with the run state false, the duty handed to the controller is 0.999
\* for every temperature and thresholds: by Config.GetFanDutyCycle, by
\* getFanDutyCycle and by the disabled branch of Controller.Run.
C5_OffWhenNotRunning ==
    (pol.fn \in {"GetFanDutyCycle", "GetFanDutyCycle_v2", "getFanDutyCycle", "RunDuty"}
        /\ ~run) => pol.duty = DutyOff

\* C5 witness: run state false at a temperature above every threshold
C5_Witness ==
    /\ pol.fn = "getFanDutyCycle" /\ ~run
    /\ \A i \in 1..4 : temp >= lv[i]
    /\ pol.duty = DutyOff

\* C6: a tick issues a backend set-duty call only if the target differs from
\* the last written duty by at least 0.01; a successful write records the
\* target, so further ticks with the same target issue no write.
C6_Debounce ==
    op.kind = "tick" =>
        /\ op.called => Abs(op.target - op.before) >= Epsilon
        /\ (op.called /\ op.ok) => lastDuty = op.target
        /\ op.target = op.before => ~op.called

\* C6 witness: the duty was written to the hardware, and the following tick
\* computed the same target and called nothing
C6_Witness ==
    /\ ctl = "svc" /\ hw
    /\ op.kind = "tick" /\ ~op.called
    /\ op.target = op.before /\ op.target = Duty50
    /\ dutyFile = DutyNs(op.target)


Has(event) == \E i \in 1..Len(sent) : sent[i] = event

\* C7: in the regex button Controller, once the line has been sampled
\* pressed for pressPeriod (18) or more consecutive ticks, starting from an
\* idle (released) line, a 'press' event has been sent on the event channel.
C7_LongPressSent ==
    (Len(runs) = 1 /\ runs[1] # "none" /\ cur >= pressPeriod) => Has("press")

\* C8: in the regex button Controller, a single press shorter than
\* pressPeriod that starts from an idle line, followed by waitPeriod + 1 (8)
\* or more released samples, has produced exactly one 'click' and no other
\* event.
C8_SingleClick ==
    (/\ Len(runs) = 2 /\ runs[1] # "none" /\ runs[2] = "short"
     /\ cur >= waitPeriod + 1)
    => sent = <<"click">>

\* C9: in the regex button Controller, two presses shorter than pressPeriod,
\* separated by a released gap shorter than waitPeriod (7) and followed by a
\* release, have produced exactly one 'twice' and no 'click'.
C9_DoubleClick ==
    (/\ Len(runs) = 4 /\ runs[1] # "none" /\ runs[2] = "short"
     /\ runs[3] = "short" /\ runs[4] = "short"
     /\ cur >= waitPeriod + 1)
    => sent = <<"twice">>

\* C10: in the regex button Controller, two presses shorter than pressPeriod,
\* separated by a released gap of waitPeriod (7) or more samples and followed
\* by idle, have produced two 'click' events and no 'twice'.
C10_TwoClicks ==
    (/\ Len(runs) = 4 /\ runs[1] # "none" /\ runs[2] = "short"
     /\ runs[3] = "long" /\ runs[4] = "short"
     /\ cur >= waitPeriod + 1)
    => sent = <<"click", "click">>

\* C11: in buttonWatcher.watch, one continuous hold of the button emits at
\* most one EventPress: no second EventPress is sent before the line has been
\* sampled released.
C11_OnePressPerHold == holdPress <= 1

\* C12: the sampling loop of a classifier never blocks on event delivery:
\* with the event channel full, the detected event is dropped and the loop
\* goes on sampling. buttonWatcher.watch is never blocked in its send.
C12_SamplingNeverBlocks == watchPc # "blocked"

\* C13: a failed button initialization only disables the classifier:
\* start-up neither ends the process because of it nor stays blocked in the
\* button Controller's Start.
C13_ButtonFailureKeepsRunning ==
    /\ startPc # "fatalButton"
    /\ ~(startPc = "blocked" /\ btnMutex = "Start")

\* C14: the control loop never runs with, and no tick invokes set-duty on, a
\* backend that a failed initialization left behind.
C14_NoLoopOnUninitializedBackend ==
    /\ loopPc = "loop" => fanPwm = "ok"
    /\ (op.kind = "tick" /\ op.called) => fanPwm = "ok"

\* C15: for softwarePWMFan, once the controller has recorded a duty and no
\* update is pending on dutyChan, the duty the PWM goroutine works with is
\* the recorded one (after clamping): the two do not stay different.
C15_RecordedDutyIsEffective ==
    (ctl = "svc" /\ ~hw /\ lastDuty # DutyInvalid /\ dutyChan = <<>>)
    => currentDuty = (ClampedDuty(lastDuty) * softwarePwmResolution) \div 1000

\* C16: when softwarePWMFan.SetDutyCycle is called with a new duty while an
\* older value is still unconsumed on dutyChan, the channel afterwards holds
\* exactly one value, the newer one.
C16_NewerReplacesOlder ==
    [][(ctl = "svc" /\ ~hw /\ lastDuty' # lastDuty /\ dutyChan # <<>>)
       => dutyChan' = <<lastDuty'>>]_vars

\* C17: a control tick that starts with the temperature cache older than the
\* TTL and does not refresh it (the provider failed) computes no duty: with
\* the run state true, such a step is a skipped tick.
C17_StaleFailureSkipsTick ==
    [][(stale /\ stale' /\ run /\ op' # op) => op'.kind # "tick"]_vars

\* C18: the temperature cache of the fan controller (lastTemp and the time
\* of its refresh) is not written while a GetTemperature call holds the
\* controller's lock for reading.
C18_NoCacheWriteUnderReadLock ==
    [][fanMutex = "GetTemperature"
       => (lastTemp' = lastTemp /\ (stale => stale'))]_vars

\* C19: once TickBound consecutive control ticks have found the run state
\* false, with no backend write failing, the last duty commanded to the
\* backend is the off value 0.999, whatever the temperature and the state of
\* the temperature cache.
C19_OffWithinBoundedTicks ==
    op.offTicks >= TickBound => lastDuty = DutyOff

\* C20: in each software PWM backend, while the fraction the PWM goroutine
\* works with is at most 0.01 a low line is not driven high, and while it is
\* at least 0.99 (0.999 included) a high line is not driven low; steps of the
\* shutdown are left aside, and so is the rest of a SoftwarePWM cycle that
\* began before the duty was changed.
C20_ExtremesHeld ==
    [][LET fraction == IF ctl = "pkg" THEN swDuty
                       ELSE IF ctl = "cmd" THEN (dutyHigh * 1000) \div GpioPeriod
                       ELSE (currentDuty * 1000) \div softwarePwmResolution
       IN  (~hw /\ pwmPc # "none" /\ closePc = "none" /\ closePc' = "none"
              /\ ~pwmStop /\ ~pwmStop' /\ (ctl = "pkg" => pwmPc = "loop"))
           => /\ (fraction <= 10 /\ fraction' <= 10 /\ line = 0) => line' = 0
              /\ (fraction >= 990 /\ fraction' >= 990 /\ line = 1) => line' = 1]_vars

\* C21: Application.shutdown always returns: once it waits for the worker
\* goroutines it leaves the wait, through the done branch or, if the workers
\* do not finish, through the timeout branch.
C21_ShutdownReturns ==
    (ctl = "pkg" /\ mainPc = "waiting") ~> (mainPc \in {"returning", "timedOut", "exited"})

C21_Witness == ctl = "pkg" /\ mainPc = "timedOut"

\* C22: every periodic task observes the shutdown signal and returns; as
\* nothing runs once the process has exited, a task has returned by then.
C22_TasksReturnOnShutdown ==
    mainPc = "exited" => (/\ watchPc \in {"none", "done"}
                          /\ loopPc \in {"none", "done"}
                          /\ pwmPc \in {"none", "done"})

\* C23: once n concurrent Toggle calls have all returned, the stored value
\* is the initial value flipped n times.
C23_ToggleFlipsNTimes ==
    (toggleCalls # <<>> /\ \A i \in 1..Len(toggleCalls) : toggleCalls[i].pc = "returned")
    => run = (IF Len(toggleCalls) % 2 = 0 THEN toggleCalls[1].initial
                                          ELSE ~toggleCalls[1].initial)

\* C24: when the thresholds are out of order and the temperature reaches a
\* higher threshold while it is below a lower one (the comparisons give
\* conflicting levels), the policy, with the run state true, returns 0.0.
C24_ConflictGivesFullSpeed ==
    (/\ pol.fn # "none"
     /\ run
     /\ \E i, j \in 1..4 : i < j /\ temp >= lv[j] /\ temp < lv[i])
    => pol.duty = DutyFull

\* C25: with the double-click window configured as zero, the regex button
\* Controller never emits 'twice', and it emits 'click' only on a sample that
\* finds the button released.
C25_ZeroWindowClickAtRelease ==
    [][(timeTwice = 0 /\ sent' # sent)
       => /\ sent'[Len(sent')] # "twice"
          /\ sent'[Len(sent')] = "click" => ~Pressed']_vars

\* C26: the sample count the regex Controller classifies with is the
\* configured double-click window divided by the 0.1 s tick and rounded to
\* the nearest integer (0.75 s gives 8 samples).
C26_SampleCountIsRounded ==
    buffer # <<>> => waitPeriod = (timeTwice + 5) \div 10

\* C27: with the run state true and strictly ascending thresholds, the duty
\* policy is non-increasing in the temperature: no temperature at or above
\* the evaluated one gets a larger duty.
C27_PolicyMonotone ==
    (/\ pol.fn \in {"GetFanDutyCycle", "GetFanDutyCycle_cmd"}
     /\ run
     /\ \A i \in 1..3 : lv[i] < lv[i + 1])
    => \A t2 \in Temps :
          t2 >= temp =>
             (IF pol.fn = "GetFanDutyCycle" THEN GetFanDutyCycle(t2, lv, run)
                                            ELSE GetFanDutyCycle_cmd(t2, lv))
             <= pol.duty

C27_Witness ==
    /\ pol.fn = "GetFanDutyCycle" /\ run
    /\ \A i \in 1..3 : lv[i] < lv[i + 1]
    /\ pol.duty = Duty50

\* C28: in buttonWatcher.watch with the default windows, a press of 3
\* samples from idle followed by a release and 8 released samples with no
\* further press has made the watcher send EventClick exactly once.  The
\* buffer shows the whole episode: three 0 samples followed by eight 1s,
\* nothing but 1s before them.
C28_ShortPressSendsClick ==
    (/\ watchPc # "none"
     /\ Len(runs) = 2 /\ runs[2] = "short" /\ cur = 8
     /\ \A i \in 1..watchBufferSize :
            stateBuffer[i] = (IF i \in (watchBufferSize - 10)..(watchBufferSize - 8)
                              THEN 0 ELSE 1))
        => sent = <<"click">>

\* C29: in the gpiod button Handler with a pull-up line that idles at 1, a
\* single press (1 to 0) shorter than the long-press timeout followed by a
\* release is classified "click", and a hold longer than the long-press
\* timeout is classified "press".
C29_PullUpPressClassified ==
    (detected \notin {"", "canceled"} /\ pattern # <<>> /\ pattern[1] = 0)
        => /\ (pattern = <<0, 1>> /\ timestamps[2] - timestamps[1] < TimePress)
                => detected = "click"
           /\ pattern = <<0>> => detected = "press"

\* C30: every PWM cycle executed by GPIOController.runPWM has high time plus
\* low time equal to the period (both taken from one commanded fraction),
\* also when setDutyCycle updates dutyHigh and dutyLow while the loop runs.
C30_CycleFillsPeriod ==
    (ctl = "cmd" /\ cycle.low >= 0) => cycle.high + cycle.low = GpioPeriod

\* C31: Controller.Start (fan) on a Controller whose backend is not yet
\* initialized (c.pwm == nil) returns: it is never left waiting for the
\* controller mutex inside Initialize while holding that mutex itself.
C31_StartReturns ==
    ~(ctl = "pkg" /\ fanPwm = "nil" /\ fanMutex = "Start" /\ startPc = "blocked")

\* C32: in every interleaving of SoftwarePWM.Close with the start-up of the
\* runPWM goroutine launched by initSoftwarePWM, once Close has returned the
\* stop channel is closed, so the goroutine terminates at its next select
\* and no longer drives the pin.
C32_CloseAlwaysSignalsStop ==
    (ctl = "pkg" /\ ~hw /\ closePc = "done" /\ pwmPc # "done") => pwmStop

\* C33: under any sequence of Start and Stop calls on the fan Controller at
\* most one controlLoop stays active: every loop but one has returned or
\* selects on a stop channel that has been closed, so that it returns.
C33_AtMostOneLoopActive ==
    Cardinality({i \in 1..Len(loops) :
                    loops[i].pc # "done" /\ loops[i].seen \notin closedChs}) <= 1

\* C34: after Controller.Stop has returned and the backend has been closed,
\* the control loop invokes no further SetDutyCycle on that backend, also
\* when Stop was called while a tick was in progress.
C34_NoSetDutyAfterStop ==
    [][(ctl = "pkg" /\ closePc = "done" /\ ~cRunning /\ ~cRunning' /\ op' # op)
          => ~op'.called]_vars

\* C35: on the first control tick after start-up, when it has a temperature,
\* the backend receives a set-duty command for the computed target whatever
\* its value, 0.0 (full speed) included: the initial last-duty value equals
\* no possible target.
C35_FirstTickCommandsBackend ==
    [][(run /\ op = NoOp /\ op'.kind = "tick") => op'.called]_vars

\* C36: in the Application service, whenever the button controller has
\* emitted a "twice" event and the configured action is "switch", the run
\* state is eventually toggled, whether or not a display is present.
C36_TwiceTogglesRun ==
    \A b \in BOOLEAN :
        (eventCh # <<>> /\ Head(eventCh) = "twice" /\ run = b) ~> (run = ~b)

\* C37: in rockpi-penta-service the main loop and RunSlider receive from
\* the same button channel: every EventClick is received by RunSlider, so
\* the page advances, and every EventTwice by the main loop, so the run
\* state is toggled.
C37_EventReachesItsHandler ==
    [][(eventChan # <<>> /\ eventChan' = Tail(eventChan))
          => /\ Head(eventChan) = "click" => idx' = (idx + 1) % numPages
             /\ Head(eventChan) = "twice" => run' = ~run]_vars

=============================================================================
